---------------------------- MODULE Spec2Model ----------------------------
(***************************************************************************)
(* Model of the recipe engine: Builder (plan build + type-keyed cache),    *)
(* OpRegistry (operation catalog), Executor (resolution + combine/apply    *)
(* walks).  Plans are heap objects addressed by an index, because the      *)
(* cache, the Executor and concurrent callers all share *Recipe pointers.   *)
(***************************************************************************)
EXTENDS Integers, Sequences, FiniteSets, TLC

VARIABLES grammar, registry, heap, cache, last, pc, loc

vars == <<grammar, registry, heap, cache, last, pc, loc>>

(***************************************************************************)
(* Bounds of the model.                                                    *)
(***************************************************************************)
MaxPlans == 2
MaxOpsLen == 4
MaxInst == 2

(***************************************************************************)
(* Program constants.                                                      *)
(***************************************************************************)
OpUnary == 1
OpVariadic == 255
FirstSuccess == 0
AllOrNothing == 1
CombineWalk == 1
ApplyWalk == 2
TransformWalk == 3

(***************************************************************************)
(* Dynamic values (Go `any`): booleans and strings, tagged so that values  *)
(* of both shapes can be compared.                                         *)
(***************************************************************************)
BoolV(b) == [k |-> "bool", b |-> b, s |-> ""]
StrV(s) == [k |-> "str", b |-> FALSE, s |-> s]
NilV == [k |-> "nil", b |-> FALSE, s |-> ""]

(***************************************************************************)
(* Record types known to the model (reflect.Type values).  A layout is the *)
(* field list of a struct type in declaration order.                       *)
(*   T1 { F bool `g:"b,a"`; x bool (unexported); N TN }                       *)
(*   TN { G bool `g:"a"` }                                                  *)
(*   T2 { H bool `g:"a"`; U bool (no tag) }                                  *)
(*   T3 { V bool `g:"-"` }                                                   *)
(*   T0 { x bool (unexported) }                                             *)
(*   T4 { M T2 }                                                            *)
(*   NS is a non-struct type (e.g. int).                                    *)
(***************************************************************************)
StructTypes == {"T0", "T1", "T2", "T3", "T4", "TN"}
AllTypes == StructTypes \cup {"NS"}
BuildTypes == {"T1", "T2", "T3", "NS"}

Fld(n, e, k, ty, tg, o) ==
    [name |-> n, exported |-> e, kind |-> k, type |-> ty, tag |-> tg, off |-> o]

Layout ==
    [t \in StructTypes |->
        CASE t = "T1" -> << Fld("F", TRUE, "bool", "bool", "b,a", 0),
                            Fld("x", FALSE, "bool", "bool", "a", 8),
                            Fld("N", TRUE, "struct", "TN", "", 16) >>
          [] t = "TN" -> << Fld("G", TRUE, "bool", "bool", "a", 8) >>
          [] t = "T2" -> << Fld("H", TRUE, "bool", "bool", "a", 0),
                            Fld("U", TRUE, "bool", "bool", "", 8) >>
          [] t = "T3" -> << Fld("V", TRUE, "bool", "bool", "-", 0) >>
          [] t = "T4" -> << Fld("M", TRUE, "struct", "T2", "", 0) >>
          [] t = "T0" -> << Fld("x", FALSE, "bool", "bool", "a", 0) >>]

Kind(t) == IF t \in StructTypes THEN "struct" ELSE "other"

(***************************************************************************)
(* The Grammar collaborator (an interface): a comma-delimited grammar      *)
(* whose ordering rule is lexicographic, as in the interface's examples.   *)
(***************************************************************************)
OpNames == {"a", "b"}
OpRank == [n \in OpNames |-> IF n = "a" THEN 1 ELSE 2]

GrammarSplit(tag) ==
    CASE tag = "a" -> [err |-> "nil", strs |-> << "a" >>]
      [] tag = "b,a" -> [err |-> "nil", strs |-> << "b", "a" >>]
      [] OTHER -> [err |-> "ErrSplit", strs |-> << >>]

GrammarParse(opstr) ==
    IF opstr \in OpNames
    THEN [err |-> "nil", lazyOp |-> opstr]
    ELSE [err |-> "ErrParse", lazyOp |-> ""]

RECURSIVE InsertOrdered(_, _)
InsertOrdered(sorted, x) ==
    IF sorted = << >> THEN << x >>
    ELSE IF OpRank[x] < OpRank[Head(sorted)] THEN << x >> \o sorted
    ELSE << Head(sorted) >> \o InsertOrdered(Tail(sorted), x)

RECURSIVE GrammarOrder(_)
GrammarOrder(lazyOps) ==
    IF lazyOps = << >> THEN << >>
    ELSE InsertOrdered(GrammarOrder(SubSeq(lazyOps, 1, Len(lazyOps) - 1)),
                       lazyOps[Len(lazyOps)])

GrammarCombiner(gwt) ==
    IF gwt = CombineWalk THEN [err |-> "nil", s |-> "and"]
    ELSE [err |-> "ErrNoCombiner", s |-> "none"]

GrammarApplier(gwt) ==
    IF gwt = ApplyWalk THEN [err |-> "nil", s |-> "reflect"]
    ELSE [err |-> "ErrNoApplier", s |-> "none"]

GrammarTransformer(gwt) ==
    IF gwt = TransformWalk THEN [err |-> "nil", s |-> "intnorm"]
    ELSE [err |-> "ErrNoTransformer", s |-> "none"]

(***************************************************************************)
(* ExecTree and Recipe.  `addr` / `extr` say whether structAddressor /     *)
(* fieldExtractor is non-nil.                                              *)
(***************************************************************************)
Node(n, o, lz, ops, st, ks, ad, ex) ==
    [name |-> n, off |-> o, lazy |-> lz, ops |-> ops, strat |-> st,
     kids |-> ks, addr |-> ad, extr |-> ex]

NilTree == Node("", 0, << >>, << >>, FirstSuccess, << >>, FALSE, FALSE)

Recipe(root, ar, wt, cmb, apl, trf, res) ==
    [root |-> root, arity |-> ar, walkType |-> wt, combiner |-> cmb,
     applier |-> apl, transformer |-> trf, resolved |-> res]

hasChild(t) == Len(t.kids) > 0

hasOperation(t) == Len(t.ops) > 0

(***************************************************************************)
(* Builder.buildField / buildTree / buildRecipe.                           *)
(***************************************************************************)
RECURSIVE ParseAll(_, _)
ParseAll(opStrs, lazyOps) ==
    IF opStrs = << >> THEN [err |-> "nil", lazyOps |-> lazyOps]
    ELSE LET p == GrammarParse(Head(opStrs))
         IN  IF p.err # "nil" THEN [err |-> p.err, lazyOps |-> << >>]
             ELSE ParseAll(Tail(opStrs), Append(lazyOps, p.lazyOp))

buildField(field) ==
    IF field.tag = "" \/ field.tag = "-"
    THEN [err |-> "ErrEmptyTag", isNil |-> TRUE, tree |-> NilTree]
    ELSE LET sp == GrammarSplit(field.tag)
         IN  IF sp.err # "nil"
             THEN [err |-> sp.err, isNil |-> TRUE, tree |-> NilTree]
             ELSE LET pa == ParseAll(sp.strs, << >>)
                  IN  IF pa.err # "nil"
                      THEN [err |-> pa.err, isNil |-> TRUE, tree |-> NilTree]
                      ELSE [err |-> "nil", isNil |-> FALSE,
                            tree |-> Node(field.name, 0, GrammarOrder(pa.lazyOps),
                                          << >>, FirstSuccess, << >>, FALSE, FALSE)]

RECURSIVE buildTree(_), buildFields(_, _, _)
(* Variant of buildTree that gives the record node an operation reference  *)
(* of its own.                                                             *)
buildTreeWithOwnOps(wt) ==
    buildFields(Layout[wt], 1,
                Node(wt, 0, << "a" >>, << >>, FirstSuccess, << >>, FALSE, FALSE))

buildTree(wt) ==
    buildFields(Layout[wt], 1,
                Node(wt, 0, << >>, << >>, FirstSuccess, << >>, FALSE, FALSE))

buildFields(fields, i, eTree) ==
    IF i > Len(fields) THEN [err |-> "nil", tree |-> eTree]
    ELSE LET field == fields[i]
         IN  IF ~field.exported THEN buildFields(fields, i + 1, eTree)
             ELSE IF field.kind = "struct"
             THEN LET c == buildTree(field.type)
                  IN  IF c.err # "nil" THEN [err |-> c.err, tree |-> NilTree]
                      ELSE buildFields(fields, i + 1,
                             [eTree EXCEPT !.kids =
                                Append(@, [c.tree EXCEPT !.name = field.name,
                                                         !.off = field.off,
                                                         !.addr = TRUE])])
             ELSE LET f == buildField(field)
                  IN  IF f.err # "nil" THEN [err |-> f.err, tree |-> NilTree]
                      ELSE IF f.isNil THEN buildFields(fields, i + 1, eTree)
                      ELSE buildFields(fields, i + 1,
                             [eTree EXCEPT !.kids =
                                Append(@, [f.tree EXCEPT !.off = field.off,
                                                         !.extr = TRUE])])

buildRecipe(wt, gwt) ==
    LET bt == buildTree(wt)
        rcp == Recipe(bt.tree, 0, gwt, "none", "none", "none", FALSE)
        c == GrammarCombiner(gwt)
        a == GrammarApplier(gwt)
        t == GrammarTransformer(gwt)
    IN  IF bt.err # "nil" THEN [err |-> bt.err, rcp |-> rcp]
        ELSE CASE gwt = CombineWalk ->
                    [err |-> c.err, rcp |-> [rcp EXCEPT !.combiner = c.s]]
               [] gwt = ApplyWalk ->
                    [err |-> a.err, rcp |-> [rcp EXCEPT !.applier = a.s]]
               [] gwt = TransformWalk ->
                    [err |-> t.err, rcp |-> [rcp EXCEPT !.transformer = t.s]]
               [] OTHER -> [err |-> "nil", rcp |-> rcp]

(***************************************************************************)
(* Builder.Build / GetOrBuild / Set over the heap h of Recipe objects and  *)
(* the cache c (type -> index into h, 0 when absent).                      *)
(***************************************************************************)
(* Variant of Set that starts a new cache holding the given Recipe only.   *)
SetReplacesCache(h, c, wt, id) ==
    IF Kind(wt) # "struct"
    THEN [err |-> "ErrNotStructKind", h |-> h, c |-> c, rcp |-> 0]
    ELSE [err |-> "nil", h |-> h,
          c |-> [t \in StructTypes |-> IF t = wt THEN id ELSE 0], rcp |-> id]

Set(h, c, wt, id) ==
    IF Kind(wt) # "struct"
    THEN [err |-> "ErrNotStructKind", h |-> h, c |-> c, rcp |-> 0]
    ELSE [err |-> "nil", h |-> h, c |-> [c EXCEPT ![wt] = id], rcp |-> id]

(* Variant of Build that stores the Recipe before it looks at the error.   *)
BuildCachesFailed(h, c, wt, doCache, gwt) ==
    IF Kind(wt) # "struct"
    THEN [err |-> "panic", h |-> h, c |-> c, rcp |-> 0]
    ELSE LET b == buildRecipe(wt, gwt)
             id == Len(h) + 1
         IN  [err |-> b.err, h |-> Append(h, b.rcp),
              c |-> IF doCache THEN [c EXCEPT ![wt] = id] ELSE c,
              rcp |-> IF b.err # "nil" THEN 0 ELSE id]

(* Variant of Build that hands out a copy of the cached Recipe when the     *)
(* cache holds one for the type.                                           *)
BuildFromCache(h, c, wt, doCache, gwt) ==
    IF Kind(wt) # "struct"
    THEN [err |-> "panic", h |-> h, c |-> c, rcp |-> 0]
    ELSE IF c[wt] # 0
    THEN [err |-> "nil", h |-> Append(h, h[c[wt]]), c |-> c, rcp |-> Len(h) + 1]
    ELSE LET b == buildRecipe(wt, gwt)
             id == Len(h) + 1
         IN  IF b.err # "nil"
             THEN [err |-> b.err, h |-> h, c |-> c, rcp |-> 0]
             ELSE [err |-> "nil", h |-> Append(h, b.rcp),
                   c |-> IF doCache THEN [c EXCEPT ![wt] = id] ELSE c,
                   rcp |-> id]

Build(h, c, wt, doCache, gwt) ==
    IF Kind(wt) # "struct"
    THEN [err |-> "panic", h |-> h, c |-> c, rcp |-> 0]
    ELSE LET b == buildRecipe(wt, gwt)
             id == Len(h) + 1
         IN  IF b.err # "nil"
             THEN [err |-> b.err, h |-> h, c |-> c, rcp |-> 0]
             ELSE [err |-> "nil", h |-> Append(h, b.rcp),
                   c |-> IF doCache THEN [c EXCEPT ![wt] = id] ELSE c,
                   rcp |-> id]

(* Variant of GetOrBuild that builds on every call.                        *)
GetOrBuildAlwaysBuilds(h, c, wt, gwt) ==
    IF Kind(wt) # "struct"
    THEN [err |-> "ErrNotStructKind", h |-> h, c |-> c, rcp |-> 0]
    ELSE Build(h, c, wt, TRUE, gwt)

GetOrBuild(h, c, wt, gwt) ==
    IF Kind(wt) # "struct"
    THEN [err |-> "ErrNotStructKind", h |-> h, c |-> c, rcp |-> 0]
    ELSE IF c[wt] # 0
    THEN [err |-> "nil", h |-> h, c |-> c, rcp |-> c[wt]]
    ELSE Build(h, c, wt, TRUE, gwt)

(***************************************************************************)
(* OpRegistry.  An Operation is an implementation with a declared arity;   *)
(* a name that is not registered maps to NoOp.                             *)
(***************************************************************************)
NoOp == [impl |-> "none", arity |-> 0]

OpImpls == {"yes", "no", "fail", "sx", "sy"}

(* Variant of RegisterOperation that keeps the first operation registered *)
(* under a name.                                                           *)
RegisterOperationKeepFirst(reg, name, op) ==
    IF reg[name] # NoOp THEN reg ELSE [reg EXCEPT ![name] = op]

RegisterOperation(reg, name, op) == [reg EXCEPT ![name] = op]

getOperation(reg, name) ==
    IF reg[name] = NoOp
    THEN [err |-> "ErrOpNotFound", op |-> NoOp]
    ELSE [err |-> "nil", op |-> reg[name]]

resolveOperation(reg, lazyOp) ==
    LET g == getOperation(reg, lazyOp)
    IN  [err |-> g.err,
         rOp |-> [name |-> lazyOp, impl |-> g.op.impl, arity |-> g.op.arity]]

(***************************************************************************)
(* Executor.resolveTree: binds the node's own references, then recurses    *)
(* into the children.  The tree is mutated in place, so the returned tree  *)
(* carries every append made before an error.                              *)
(***************************************************************************)
RECURSIVE resolveTree(_, _, _), resolveLazyOps(_, _, _, _), resolveChildren(_, _, _, _)
(* Variant of the reference loop of resolveTree without the arity test.    *)
RECURSIVE resolveLazyOpsNoArityCheck(_, _, _, _)
resolveLazyOpsNoArityCheck(eTree, i, reg, arity) ==
    IF i > Len(eTree.lazy) THEN [err |-> "nil", tree |-> eTree]
    ELSE LET r == resolveOperation(reg, eTree.lazy[i])
         IN  IF r.err # "nil" THEN [err |-> r.err, tree |-> eTree]
             ELSE resolveLazyOpsNoArityCheck([eTree EXCEPT !.ops = Append(@, r.rOp)],
                                             i + 1, reg, arity)

resolveLazyOps(eTree, i, reg, arity) ==
    IF i > Len(eTree.lazy) THEN [err |-> "nil", tree |-> eTree]
    ELSE LET r == resolveOperation(reg, eTree.lazy[i])
         IN  IF r.err # "nil" THEN [err |-> r.err, tree |-> eTree]
             ELSE IF r.rOp.arity # arity
             THEN [err |-> "ErrArityMismatch", tree |-> eTree]
             ELSE resolveLazyOps([eTree EXCEPT !.ops = Append(@, r.rOp)],
                                 i + 1, reg, arity)

resolveChildren(eTree, j, reg, arity) ==
    IF j > Len(eTree.kids) THEN [err |-> "nil", tree |-> eTree]
    ELSE LET c == resolveTree(eTree.kids[j], reg, arity)
             t == [eTree EXCEPT !.kids[j] = c.tree]
         IN  IF c.err # "nil" THEN [err |-> c.err, tree |-> t]
             ELSE resolveChildren(t, j + 1, reg, arity)

resolveTree(eTree, reg, arity) ==
    LET l == resolveLazyOps(eTree, 1, reg, arity)
    IN  IF l.err # "nil" THEN l
        ELSE resolveChildren(l.tree, 1, reg, arity)

(***************************************************************************)
(* Executor.resolveRecipe.                                                 *)
(***************************************************************************)
(* Variant of resolveGot that resolves the tree on every call, whether or   *)
(* not the Recipe is already marked resolved.                              *)
resolveGotEveryCall(g, reg, wet) ==
    IF g.err # "nil" THEN g
    ELSE LET rcp == g.h[g.rcp]
             r == resolveTree(rcp.root, reg, rcp.arity)
             h1 == [g.h EXCEPT ![g.rcp].root = r.tree]
             h2 == [h1 EXCEPT ![g.rcp].resolved = TRUE]
         IN  IF r.err # "nil"
             THEN [err |-> r.err, h |-> h1, c |-> g.c, rcp |-> 0]
             ELSE Set(h2, g.c, wet, g.rcp)

(* Variant of resolveGot that marks the Recipe resolved before the tree    *)
(* has been resolved.                                                      *)
resolveGotMarksFirst(g, reg, wet) ==
    IF g.err # "nil" THEN g
    ELSE LET rcp == g.h[g.rcp]
             r == IF ~rcp.resolved
                  THEN resolveTree(rcp.root, reg, rcp.arity)
                  ELSE [err |-> "nil", tree |-> rcp.root]
             h2 == [g.h EXCEPT ![g.rcp].root = r.tree, ![g.rcp].resolved = TRUE]
         IN  IF r.err # "nil"
             THEN [err |-> r.err, h |-> h2, c |-> g.c, rcp |-> 0]
             ELSE Set(h2, g.c, wet, g.rcp)

(* resolveRecipe from the point where GetOrBuild has returned g.           *)
resolveGot(g, reg, wet) ==
    IF g.err # "nil" THEN g
    ELSE LET rcp == g.h[g.rcp]
             r == IF ~rcp.resolved
                  THEN resolveTree(rcp.root, reg, rcp.arity)
                  ELSE [err |-> "nil", tree |-> rcp.root]
             h1 == [g.h EXCEPT ![g.rcp].root = r.tree]
             h2 == [h1 EXCEPT ![g.rcp].resolved = TRUE]
         IN  IF r.err # "nil"
             THEN [err |-> r.err, h |-> h1, c |-> g.c, rcp |-> 0]
             ELSE Set(h2, g.c, wet, g.rcp)

resolveRecipe(h, c, reg, wet, gwt) ==
    resolveGot(GetOrBuild(h, c, wet, gwt), reg, wet)

(***************************************************************************)
(* Walked arguments: [ptr, elem, base].  ptr says whether the argument is  *)
(* a pointer, elem is the pointed-to type, base the instance's address.    *)
(***************************************************************************)
elemType(w) ==
    IF ~w.ptr THEN [err |-> "ErrNotPointerKind", t |-> "NS"]
    ELSE IF Kind(w.elem) # "struct" THEN [err |-> "ErrNotStructElem", t |-> "NS"]
    ELSE [err |-> "nil", t |-> w.elem]

(***************************************************************************)
(* ExecContext: "nil" (no context), or a context whose overrides name the  *)
(* strategy to use ("none" = override not set).                            *)
(***************************************************************************)
NoCtx == [isNil |-> TRUE, combiner |-> "none", applier |-> "none", transformer |-> "none"]
OvrCtx == [isNil |-> FALSE, combiner |-> "or", applier |-> "recorder", transformer |-> "none"]
ConcatCtx == [isNil |-> FALSE, combiner |-> "concat", applier |-> "none", transformer |-> "none"]

applyContext(ctx, rcp) ==
    IF ctx.isNil THEN rcp
    ELSE CASE rcp.walkType = CombineWalk ->
                IF ctx.combiner # "none"
                THEN [rcp EXCEPT !.combiner = ctx.combiner] ELSE rcp
           [] rcp.walkType = ApplyWalk ->
                IF ctx.applier # "none"
                THEN [rcp EXCEPT !.applier = ctx.applier] ELSE rcp
           [] rcp.walkType = TransformWalk ->
                IF ctx.transformer # "none"
                THEN [rcp EXCEPT !.transformer = ctx.transformer] ELSE rcp
           [] OTHER -> rcp

RECURSIVE checkWalked(_, _, _)
checkWalked(walked, i, wet) ==
    IF i > Len(walked) THEN "nil"
    ELSE LET e == elemType(walked[i])
         IN  IF e.err # "nil" THEN e.err
             ELSE IF wet # e.t THEN "ErrWalkArgsMismatch"
             ELSE checkWalked(walked, i + 1, wet)

(* Variant of prepareResolved without the walk-type check.                 *)
prepareResolvedNoWalkTypeCheck(r, ctx, wt, walked, wet) ==
    IF r.err # "nil" THEN r
    ELSE LET h1 == [r.h EXCEPT ![r.rcp] = applyContext(ctx, @)]
             a == checkWalked(walked, 2, wet)
         IN  IF a # "nil"
             THEN [err |-> a, h |-> h1, c |-> r.c, rcp |-> 0]
             ELSE [err |-> "nil", h |-> h1, c |-> r.c, rcp |-> r.rcp]

(* prepareExecute from the point where resolveRecipe has returned r for    *)
(* the element type wet of the first walked argument.                      *)
prepareResolved(r, ctx, wt, walked, wet) ==
    IF r.err # "nil" THEN r
    ELSE IF r.h[r.rcp].walkType # wt
    THEN [err |-> "ErrWalkTypeMismatch", h |-> r.h, c |-> r.c, rcp |-> 0]
    ELSE LET h1 == [r.h EXCEPT ![r.rcp] = applyContext(ctx, @)]
             a == checkWalked(walked, 2, wet)
         IN  IF a # "nil"
             THEN [err |-> a, h |-> h1, c |-> r.c, rcp |-> 0]
             ELSE [err |-> "nil", h |-> h1, c |-> r.c, rcp |-> r.rcp]

(* Variant of prepareExecute without the length check: indexing the empty *)
(* argument list panics.                                                   *)
prepareExecuteNoLenCheck(h, c, reg, ctx, wt, walked, gwt) ==
    IF Len(walked) = 0
    THEN [err |-> "panic", h |-> h, c |-> c, rcp |-> 0]
    ELSE LET e == elemType(walked[1])
         IN  IF e.err # "nil" THEN [err |-> e.err, h |-> h, c |-> c, rcp |-> 0]
             ELSE prepareResolved(resolveRecipe(h, c, reg, e.t, gwt),
                                  ctx, wt, walked, e.t)

prepareExecute(h, c, reg, ctx, wt, walked, gwt) ==
    IF Len(walked) = 0
    THEN [err |-> "ErrNoWalked", h |-> h, c |-> c, rcp |-> 0]
    ELSE LET e == elemType(walked[1])
         IN  IF e.err # "nil" THEN [err |-> e.err, h |-> h, c |-> c, rcp |-> 0]
             ELSE prepareResolved(resolveRecipe(h, c, reg, e.t, gwt),
                                  ctx, wt, walked, e.t)

(***************************************************************************)
(* Strategies.  Combiners: "and" (BoolAndCombiner), "concat"               *)
(* (StringConcatCombiner), "or" (a caller's override combiner); "none" is  *)
(* a nil interface, whose method calls panic.  A failed type assertion     *)
(* panics too.                                                             *)
(***************************************************************************)
Zero(comb) ==
    CASE comb = "and" -> [panic |-> FALSE, val |-> BoolV(TRUE)]
      [] comb = "concat" -> [panic |-> FALSE, val |-> StrV("")]
      [] comb = "or" -> [panic |-> FALSE, val |-> BoolV(FALSE)]
      [] OTHER -> [panic |-> TRUE, val |-> NilV]

Combine(comb, acc, result) ==
    CASE comb = "and" ->
            IF acc.k = "bool" /\ result.k = "bool"
            THEN [panic |-> FALSE, val |-> BoolV(acc.b /\ result.b)]
            ELSE [panic |-> TRUE, val |-> NilV]
      [] comb = "concat" ->
            IF acc.k = "str" /\ result.k = "str"
            THEN [panic |-> FALSE,
                  val |-> IF acc.s = "" THEN result ELSE StrV(acc.s \o result.s)]
            ELSE [panic |-> TRUE, val |-> NilV]
      [] comb = "or" ->
            IF acc.k = "bool" /\ result.k = "bool"
            THEN [panic |-> FALSE, val |-> BoolV(acc.b \/ result.b)]
            ELSE [panic |-> TRUE, val |-> NilV]
      [] OTHER -> [panic |-> TRUE, val |-> NilV]

(* Appliers: "reflect" (ReflectSetterApplier, whose setField is a stub that *)
(* returns nil), "recorder" (a caller's override applier).                 *)
Apply(aplr, ptr, fieldOffset, value) ==
    IF aplr \in {"reflect", "recorder"} THEN "nil" ELSE "panic"

(* Operation.Execute of the model's operation implementations.             *)
OpExecute(impl, sources) ==
    CASE impl = "yes" -> [err |-> "nil", val |-> BoolV(TRUE)]
      [] impl = "no" -> [err |-> "nil", val |-> BoolV(FALSE)]
      [] impl = "sx" -> [err |-> "nil", val |-> StrV("x")]
      [] impl = "sy" -> [err |-> "nil", val |-> StrV("y")]
      [] OTHER -> [err |-> "ErrOpFailed", val |-> NilV]

(* Contents of the instances' memory: the boolean stored at an address.    *)
Mem(a) == BoolV((a \div 8) % 2 = 0)

(* The value stored at address a after the Applier calls of a walk's trace: *)
(* ReflectSetterApplier writes nothing (setField returns nil at once); a   *)
(* caller's applier stores the value at the pointer plus the offset it is  *)
(* given.                                                                  *)
RECURSIVE MemAfter(_, _, _)
MemAfter(log, k, a) ==
    IF k = 0 THEN Mem(a)
    ELSE IF /\ log[k].ev = "apply"
            /\ log[k].impl # "reflect"
            /\ log[k].ptr + log[k].off = a
    THEN log[k].val
    ELSE MemAfter(log, k - 1, a)

(***************************************************************************)
(* Trace of one walk: operation executions, field reads, applier calls.    *)
(***************************************************************************)
ExecEv(node, rOp, sources) ==
    [ev |-> "exec", node |-> node, op |-> rOp.name, impl |-> rOp.impl,
     srcs |-> sources, ptr |-> 0, off |-> 0, val |-> NilV]
ReadEv(node, a) ==
    [ev |-> "read", node |-> node, op |-> "", impl |-> "",
     srcs |-> << >>, ptr |-> a, off |-> 0, val |-> Mem(a)]
ApplyEv(node, aplr, p, o, v) ==
    [ev |-> "apply", node |-> node, op |-> "", impl |-> aplr,
     srcs |-> << >>, ptr |-> p, off |-> o, val |-> v]

WalkRes(e, v, l) == [err |-> e, val |-> v, log |-> l]

extractChildPointers(eTree, wPtrs) ==
    [i \in 1..Len(wPtrs) |-> wPtrs[i] + eTree.off]

extractFieldValues(eTree, wPtrs) ==
    [i \in 1..Len(wPtrs) |-> Mem(wPtrs[i] + eTree.off)]

ReadEvents(eTree, wPtrs) ==
    [i \in 1..Len(wPtrs) |-> ReadEv(eTree.name, wPtrs[i] + eTree.off)]

(***************************************************************************)
(* Executor.walkCombiner.                                                  *)
(***************************************************************************)
RECURSIVE walkCombiner(_, _, _), walkCombinerChildren(_, _, _, _, _, _), walkCombinerOps(_, _, _, _, _, _)
(* Variant of the operation loop of walkCombiner that returns the first    *)
(* result under either strategy.                                           *)
walkCombinerOpsFirstOnly(combiner, eTree, k, wFields, acc, log) ==
    IF k > Len(eTree.ops) THEN WalkRes("nil", acc, log)
    ELSE LET operation == eTree.ops[k]
             x == OpExecute(operation.impl, wFields)
             log1 == Append(log, ExecEv(eTree.name, operation, wFields))
         IN  IF x.err # "nil" THEN WalkRes(x.err, NilV, log1)
             ELSE WalkRes("nil", x.val, log1)

(* Variant of the operation loop of walkCombiner that goes on to the next  *)
(* operation when one fails.                                               *)
walkCombinerOpsSkipFailed(combiner, eTree, k, wFields, acc, log) ==
    IF k > Len(eTree.ops) THEN WalkRes("nil", acc, log)
    ELSE LET operation == eTree.ops[k]
             x == OpExecute(operation.impl, wFields)
             log1 == Append(log, ExecEv(eTree.name, operation, wFields))
             cmb == Combine(combiner, acc, x.val)
         IN  IF x.err # "nil"
             THEN walkCombinerOps(combiner, eTree, k + 1, wFields, acc, log1)
             ELSE CASE eTree.strat = FirstSuccess -> WalkRes("nil", x.val, log1)
                    [] eTree.strat = AllOrNothing ->
                         IF cmb.panic THEN WalkRes("panic", NilV, log1)
                         ELSE walkCombinerOps(combiner, eTree, k + 1, wFields, cmb.val, log1)
                    [] OTHER -> WalkRes("ErrUnknownStrategy", NilV, log1)

(* Variant of the child loop of walkCombiner that folds a child's result   *)
(* in front of the accumulator.                                            *)
walkCombinerChildrenPrepend(combiner, eTree, j, wPtrs, acc, log) ==
    IF j > Len(eTree.kids) THEN WalkRes("nil", acc, log)
    ELSE LET cTree == eTree.kids[j]
             r == walkCombiner(combiner, cTree, extractChildPointers(cTree, wPtrs))
             cmb == Combine(combiner, r.val, acc)
         IN  IF ~cTree.addr THEN WalkRes("panic", NilV, log)
             ELSE IF r.err # "nil" THEN WalkRes(r.err, NilV, log \o r.log)
             ELSE IF cmb.panic THEN WalkRes("panic", NilV, log \o r.log)
             ELSE walkCombinerChildren(combiner, eTree, j + 1, wPtrs, cmb.val, log \o r.log)

walkCombinerOps(combiner, eTree, k, wFields, acc, log) ==
    IF k > Len(eTree.ops) THEN WalkRes("nil", acc, log)
    ELSE LET operation == eTree.ops[k]
             x == OpExecute(operation.impl, wFields)
             log1 == Append(log, ExecEv(eTree.name, operation, wFields))
             cmb == Combine(combiner, acc, x.val)
         IN  IF x.err # "nil" THEN WalkRes(x.err, NilV, log1)
             ELSE CASE eTree.strat = FirstSuccess -> WalkRes("nil", x.val, log1)
                    [] eTree.strat = AllOrNothing ->
                         IF cmb.panic THEN WalkRes("panic", NilV, log1)
                         ELSE walkCombinerOps(combiner, eTree, k + 1, wFields, cmb.val, log1)
                    [] OTHER -> WalkRes("ErrUnknownStrategy", NilV, log1)

walkCombinerChildren(combiner, eTree, j, wPtrs, acc, log) ==
    IF j > Len(eTree.kids) THEN WalkRes("nil", acc, log)
    ELSE LET cTree == eTree.kids[j]
             r == walkCombiner(combiner, cTree, extractChildPointers(cTree, wPtrs))
             cmb == Combine(combiner, acc, r.val)
         IN  IF ~cTree.addr THEN WalkRes("panic", NilV, log)
             ELSE IF r.err # "nil" THEN WalkRes(r.err, NilV, log \o r.log)
             ELSE IF cmb.panic THEN WalkRes("panic", NilV, log \o r.log)
             ELSE walkCombinerChildren(combiner, eTree, j + 1, wPtrs, cmb.val, log \o r.log)

walkCombiner(combiner, eTree, wPtrs) ==
    LET z == Zero(combiner)
    IN  IF z.panic THEN WalkRes("panic", NilV, << >>)
        ELSE IF hasChild(eTree)
        THEN walkCombinerChildren(combiner, eTree, 1, wPtrs, z.val, << >>)
        ELSE IF hasOperation(eTree)
        THEN IF ~eTree.extr THEN WalkRes("panic", NilV, << >>)
             ELSE walkCombinerOps(combiner, eTree, 1, extractFieldValues(eTree, wPtrs),
                                  z.val, ReadEvents(eTree, wPtrs))
        ELSE WalkRes("nil", z.val, << >>)

(***************************************************************************)
(* Executor.walkApplier.                                                   *)
(***************************************************************************)
RECURSIVE applyAll(_, _, _, _, _, _)
applyAll(aplr, eTree, i, wPtrs, res, log) ==
    IF i > Len(wPtrs) THEN WalkRes("nil", NilV, log)
    ELSE LET e == Apply(aplr, wPtrs[i], eTree.off, res)
         IN  IF e = "panic" THEN WalkRes("panic", NilV, log)
             ELSE IF e # "nil" THEN WalkRes(e, NilV, log)
             ELSE applyAll(aplr, eTree, i + 1, wPtrs, res,
                           Append(log, ApplyEv(eTree.name, aplr, wPtrs[i], eTree.off, res)))

RECURSIVE walkApplier(_, _, _, _), walkApplierChildren(_, _, _, _, _, _), walkApplierOps(_, _, _, _, _, _)
(* Variant of the operation loop of walkApplier that executes the          *)
(* operations on the values of the destination fields.                     *)
walkApplierOpsOnFields(aplr, eTree, k, wPtrs, vals, log) ==
    IF k > Len(eTree.ops) THEN WalkRes("nil", NilV, log)
    ELSE LET operation == eTree.ops[k]
             wFields == extractFieldValues(eTree, wPtrs)
             x == OpExecute(operation.impl, wFields)
             log1 == Append(log \o ReadEvents(eTree, wPtrs),
                            ExecEv(eTree.name, operation, wFields))
             ap == applyAll(aplr, eTree, 1, wPtrs, x.val, log1)
         IN  IF x.err # "nil" THEN WalkRes(x.err, NilV, log1)
             ELSE IF ap.err # "nil" THEN ap
             ELSE CASE eTree.strat = FirstSuccess -> ap
                    [] eTree.strat = AllOrNothing ->
                         walkApplierOps(aplr, eTree, k + 1, wPtrs, vals, ap.log)
                    [] OTHER -> WalkRes("ErrUnknownStrategy", NilV, ap.log)

walkApplierOps(aplr, eTree, k, wPtrs, vals, log) ==
    IF k > Len(eTree.ops) THEN WalkRes("nil", NilV, log)
    ELSE LET operation == eTree.ops[k]
             x == OpExecute(operation.impl, vals)
             log1 == Append(log, ExecEv(eTree.name, operation, vals))
             ap == applyAll(aplr, eTree, 1, wPtrs, x.val, log1)
         IN  IF x.err # "nil" THEN WalkRes(x.err, NilV, log1)
             ELSE IF ap.err # "nil" THEN ap
             ELSE CASE eTree.strat = FirstSuccess -> ap
                    [] eTree.strat = AllOrNothing ->
                         walkApplierOps(aplr, eTree, k + 1, wPtrs, vals, ap.log)
                    [] OTHER -> WalkRes("ErrUnknownStrategy", NilV, ap.log)

walkApplierChildren(aplr, eTree, j, wPtrs, vals, log) ==
    IF j > Len(eTree.kids) THEN WalkRes("nil", NilV, log)
    ELSE LET cTree == eTree.kids[j]
             r == walkApplier(aplr, cTree, extractChildPointers(cTree, wPtrs), vals)
         IN  IF ~cTree.addr THEN WalkRes("panic", NilV, log)
             ELSE IF r.err # "nil" THEN WalkRes(r.err, NilV, log \o r.log)
             ELSE walkApplierChildren(aplr, eTree, j + 1, wPtrs, vals, log \o r.log)

walkApplier(aplr, eTree, wPtrs, vals) ==
    IF hasChild(eTree)
    THEN walkApplierChildren(aplr, eTree, 1, wPtrs, vals, << >>)
    ELSE IF hasOperation(eTree)
    THEN walkApplierOps(aplr, eTree, 1, wPtrs, vals, << >>)
    ELSE WalkRes("nil", NilV, << >>)

(***************************************************************************)
(* Executor.ExecuteCombineWalk / ExecuteApplyWalk.  `used` is the strategy *)
(* the walk ran with.                                                      *)
(***************************************************************************)
CallRes(e, v, l, h, c, u, r) ==
    [err |-> e, val |-> v, log |-> l, h |-> h, c |-> c, used |-> u, rcp |-> r]

Pointers(walked) == [i \in 1..Len(walked) |-> walked[i].base]

(* Variant of the finishing step that folds the tree's value into itself   *)
(* instead of into the combiner's zero value.                              *)
combinePreparedFoldsTwice(pe, walked) ==
    IF pe.err # "nil" THEN CallRes(pe.err, NilV, << >>, pe.h, pe.c, "none", 0)
    ELSE LET rcp == pe.h[pe.rcp]
             w == walkCombiner(rcp.combiner, rcp.root, Pointers(walked))
             f == Combine(rcp.combiner, w.val, w.val)
         IN  IF w.err # "nil"
             THEN CallRes(w.err, NilV, w.log, pe.h, pe.c, rcp.combiner, pe.rcp)
             ELSE IF f.panic
             THEN CallRes("panic", NilV, w.log, pe.h, pe.c, rcp.combiner, pe.rcp)
             ELSE CallRes("nil", f.val, w.log, pe.h, pe.c, rcp.combiner, pe.rcp)

(* ExecuteCombineWalk from the point where prepareExecute has returned pe. *)
combinePrepared(pe, walked) ==
    IF pe.err # "nil" THEN CallRes(pe.err, NilV, << >>, pe.h, pe.c, "none", 0)
    ELSE LET rcp == pe.h[pe.rcp]
             w == walkCombiner(rcp.combiner, rcp.root, Pointers(walked))
             f == Combine(rcp.combiner, Zero(rcp.combiner).val, w.val)
         IN  IF w.err # "nil"
             THEN CallRes(w.err, NilV, w.log, pe.h, pe.c, rcp.combiner, pe.rcp)
             ELSE IF f.panic
             THEN CallRes("panic", NilV, w.log, pe.h, pe.c, rcp.combiner, pe.rcp)
             ELSE CallRes("nil", f.val, w.log, pe.h, pe.c, rcp.combiner, pe.rcp)

ExecuteCombineWalk(h, c, reg, ctx, walked, gwt) ==
    combinePrepared(prepareExecute(h, c, reg, ctx, CombineWalk, walked, gwt), walked)

(* ExecuteApplyWalk from the point where prepareExecute has returned pe.   *)
applyPrepared(pe, walked, vals) ==
    IF pe.err # "nil" THEN CallRes(pe.err, NilV, << >>, pe.h, pe.c, "none", 0)
    ELSE LET rcp == pe.h[pe.rcp]
             w == walkApplier(rcp.applier, rcp.root, Pointers(walked), vals)
         IN  CallRes(w.err, NilV, w.log, pe.h, pe.c, rcp.applier, pe.rcp)

ExecuteApplyWalk(h, c, reg, ctx, walked, vals, gwt) ==
    applyPrepared(prepareExecute(h, c, reg, ctx, ApplyWalk, walked, gwt), walked, vals)

(***************************************************************************)
(* Helpers over trees and the inputs of the calls.                         *)
(***************************************************************************)
RECURSIVE Nodes(_), NodesOfKids(_, _)
Nodes(eTree) == << eTree >> \o NodesOfKids(eTree.kids, 1)

NodesOfKids(kids, j) ==
    IF j > Len(kids) THEN << >>
    ELSE Nodes(kids[j]) \o NodesOfKids(kids, j + 1)

OpNamesOf(ops) == [i \in 1..Len(ops) |-> ops[i].name]

OpsBounded(h) ==
    \A i \in 1..Len(h) :
        LET ns == Nodes(h[i].root)
        IN  \A n \in 1..Len(ns) : Len(ns[n].ops) <= MaxOpsLen

(* A Recipe assembled by a caller and installed with Builder.Set.          *)
HandTree ==
    Node("R", 0, << >>, << >>, FirstSuccess,
         << Node("P", 0, << "a", "b" >>, << >>, FirstSuccess, << >>, TRUE, TRUE),
            Node("Q", 8, << "b", "a" >>, << >>, FirstSuccess, << >>, TRUE, TRUE) >>,
         FALSE, FALSE)

HandRecipe(arity, wt) ==
    Recipe(HandTree, arity, wt,
           IF wt = CombineWalk THEN "and" ELSE "none",
           IF wt = ApplyWalk THEN "reflect" ELSE "none", "none", FALSE)

Instances ==
    { [ptr |-> TRUE, elem |-> "T1", base |-> 100],
      [ptr |-> TRUE, elem |-> "T2", base |-> 200] }

WalkedArgs == UNION { [1..n -> Instances] : n \in 0..MaxInst }

SourceVals == { << BoolV(TRUE), BoolV(FALSE) >> }

(* The operations a caller registers under each name.                      *)
RegOps ==
    [n \in OpNames |->
        IF n = "a" THEN { [impl |-> "yes", arity |-> OpUnary] }
        ELSE { [impl |-> "yes", arity |-> OpUnary],
               [impl |-> "fail", arity |-> OpUnary] }]

Threads == {"t1", "t2"}

Last(op, t, ctx, walked, vals, r, pres) ==
    [op |-> op, t |-> t, ctx |-> ctx, walked |-> walked, vals |-> vals,
     err |-> r.err, val |-> r.val, log |-> r.log, used |-> r.used,
     rcp |-> r.rcp, pres |-> pres]

NoRes(e, id) == CallRes(e, NilV, << >>, heap, cache, "none", id)

(* A caller's position inside one call: t the kind of call, ctx its        *)
(* context, rcp the *Recipe it holds, work the operation references it has *)
(* still to bind, hdr the slice it is about to store, err its result.      *)
LocInit ==
    [t |-> "", ctx |-> NoCtx, rcp |-> 0, work |-> << >>, hdr |-> << >>, err |-> "nil"]

(* Whether the cache already holds a resolved Recipe for the first walked   *)
(* argument's type.                                                        *)
PreResolved(walked) ==
    /\ Len(walked) > 0
    /\ elemType(walked[1]).err = "nil"
    /\ cache[walked[1].elem] # 0
    /\ heap[cache[walked[1].elem]].resolved

(***************************************************************************)
(* Recipes that nothing references any more are reclaimed by the runtime:  *)
(* Collect keeps the Recipes reachable from the cache (or from `keep`) and *)
(* renumbers the references.                                               *)
(***************************************************************************)
Live(h, c, keep) == { i \in 1..Len(h) : i \in keep \/ \E t \in StructTypes : c[t] = i }

NewIndex(live, i) == IF i \in live THEN Cardinality({ j \in live : j <= i }) ELSE 0

RECURSIVE Compact(_, _, _)
Compact(h, live, i) ==
    IF i > Len(h) THEN << >>
    ELSE (IF i \in live THEN << h[i] >> ELSE << >>) \o Compact(h, live, i + 1)

Collect(r) ==
    LET live == Live(r.h, r.c, {})
    IN  [r EXCEPT !.h = Compact(r.h, live, 1),
                  !.c = [t \in StructTypes |-> NewIndex(live, r.c[t])],
                  !.rcp = NewIndex(live, r.rcp)]

(***************************************************************************)
(* Sequential specification: every call runs to completion.                *)
(***************************************************************************)
Init ==
    /\ grammar \in [walkType : {CombineWalk, ApplyWalk, TransformWalk}]
    /\ registry = [n \in OpNames |-> NoOp]
    /\ heap = << >>
    /\ cache = [t \in StructTypes |-> 0]
    /\ last = Last("init", "", NoCtx, << >>, << >>, NoRes("nil", 0), FALSE)
    /\ pc = [th \in Threads |-> "idle"]
    /\ loc = [th \in Threads |-> LocInit]

CombineCall(ctx, walked) ==
    \E r \in { Collect(ExecuteCombineWalk(heap, cache, registry, ctx, walked, grammar.walkType)) } :
        /\ Len(r.h) <= MaxPlans
        /\ OpsBounded(r.h)
        /\ heap' = r.h
        /\ cache' = r.c
        /\ last' = Last("combine", "", ctx, walked, << >>, r, PreResolved(walked))
        /\ UNCHANGED <<grammar, registry, pc, loc>>

ApplyCall(ctx, walked, vals) ==
    \E r \in { Collect(ExecuteApplyWalk(heap, cache, registry, ctx, walked, vals, grammar.walkType)) } :
        /\ Len(r.h) <= MaxPlans
        /\ OpsBounded(r.h)
        /\ heap' = r.h
        /\ cache' = r.c
        /\ last' = Last("apply", "", ctx, walked, vals, r, PreResolved(walked))
        /\ UNCHANGED <<grammar, registry, pc, loc>>

RegisterCall(name, op) ==
    /\ registry' = RegisterOperation(registry, name, op)
    /\ last' = Last("register", name, NoCtx, << >>, << op >>, NoRes("nil", 0), FALSE)
    /\ UNCHANGED <<grammar, heap, cache, pc, loc>>

SetCall(wt, arity, walkType) ==
    \E r \in { Collect(Set(Append(heap, HandRecipe(arity, walkType)), cache, wt, Len(heap) + 1)) } :
        /\ Len(r.h) <= MaxPlans
        /\ heap' = r.h
        /\ cache' = r.c
        /\ last' = Last("set", wt, NoCtx, << >>, << >>, NoRes(r.err, r.rcp), FALSE)
        /\ UNCHANGED <<grammar, registry, pc, loc>>

BuildCall(wt, doCache) ==
    \E r \in { Collect(Build(heap, cache, wt, doCache, grammar.walkType)) } :
        /\ Len(r.h) <= MaxPlans
        /\ heap' = r.h
        /\ cache' = r.c
        /\ last' = Last(IF doCache THEN "buildCached" ELSE "build", wt, NoCtx,
                        << >>, << >>, NoRes(r.err, r.rcp), FALSE)
        /\ UNCHANGED <<grammar, registry, pc, loc>>

GetOrBuildCall(wt) ==
    \E r \in { Collect(GetOrBuild(heap, cache, wt, grammar.walkType)) } :
        /\ Len(r.h) <= MaxPlans
        /\ heap' = r.h
        /\ cache' = r.c
        /\ last' = Last("getOrBuild", wt, NoCtx, << >>, << >>, NoRes(r.err, r.rcp), FALSE)
        /\ UNCHANGED <<grammar, registry, pc, loc>>

Next ==
    \/ \E ctx \in {NoCtx, OvrCtx}, walked \in WalkedArgs : CombineCall(ctx, walked)
    \/ \E ctx \in {NoCtx, OvrCtx}, walked \in WalkedArgs, vals \in SourceVals :
          ApplyCall(ctx, walked, vals)
    \/ \E name \in OpNames : \E op \in RegOps[name] : RegisterCall(name, op)
    \/ \E wt \in {"T1", "NS"}, arity \in {OpUnary, OpVariadic},
          walkType \in {CombineWalk, ApplyWalk} : SetCall(wt, arity, walkType)
    \/ \E wt \in BuildTypes, doCache \in BOOLEAN : BuildCall(wt, doCache)
    \/ \E wt \in BuildTypes : GetOrBuildCall(wt)

Spec == Init /\ [][Next]_vars

(***************************************************************************)
(* Cache specification: the Builder alone.  Callers set, build and look up *)
(* Recipes for types that build (T1, TN), types whose build fails at the   *)
(* top level (T2) and inside a nested struct (T4), and the non-struct      *)
(* type.                                                                   *)
(***************************************************************************)
CacheTypes == {"T1", "T2", "T4", "TN", "NS"}

NextCache ==
    \/ \E wt \in CacheTypes : SetCall(wt, OpUnary, CombineWalk)
    \/ \E wt \in CacheTypes, doCache \in BOOLEAN : BuildCall(wt, doCache)
    \/ \E wt \in CacheTypes : GetOrBuildCall(wt)

SpecCache == Init /\ [][NextCache]_vars

(***************************************************************************)
(* Concurrent specification: two callers walk instances of the same record *)
(* type through one Executor.  A step is one access to shared memory: the  *)
(* cache under its lock, the unguarded `resolved` flag, and the unguarded  *)
(* load and store of `eTree.Operations = append(eTree.Operations, *rOp)`.  *)
(***************************************************************************)
ConcTypes == {"T1", "T0"}

(* Both callers pass one pointer to an instance of the same record type;   *)
(* the argument is fixed by the initial state and kept in `last`.          *)
ConcWalked == last.walked

ConcType == ConcWalked[1].elem

(* The operation references of a tree in the order resolveTree binds them. *)
RECURSIVE WorkList(_, _), WorkOfKids(_, _, _)
WorkList(eTree, path) ==
    [i \in 1..Len(eTree.lazy) |-> [path |-> path, i |-> i]]
        \o WorkOfKids(eTree, path, 1)

WorkOfKids(eTree, path, j) ==
    IF j > Len(eTree.kids) THEN << >>
    ELSE WorkList(eTree.kids[j], Append(path, j)) \o WorkOfKids(eTree, path, j + 1)

RECURSIVE NodeAt(_, _)
NodeAt(eTree, path) ==
    IF path = << >> THEN eTree
    ELSE NodeAt(eTree.kids[Head(path)], Tail(path))

RECURSIVE StoreOperations(_, _, _)
StoreOperations(eTree, path, ops) ==
    IF path = << >> THEN [eTree EXCEPT !.ops = ops]
    ELSE [eTree EXCEPT !.kids[Head(path)] = StoreOperations(@, Tail(path), ops)]

RegAll == [n \in OpNames |-> [impl |-> "yes", arity |-> OpUnary]]

RegOnlyA == [RegAll EXCEPT !["b"] = NoOp]

Return(th, e) ==
    /\ pc' = [pc EXCEPT ![th] = "done"]
    /\ loc' = [loc EXCEPT ![th].err = e]

InitConc ==
    /\ grammar \in [walkType : {CombineWalk, ApplyWalk}]
    /\ registry \in {RegAll, RegOnlyA}
    /\ \E wt \in ConcTypes :
          /\ \/ heap = << >> /\ cache = [t \in StructTypes |-> 0]
             \/ \E walkType \in {CombineWalk, ApplyWalk} :
                   /\ wt = "T1"
                   /\ heap = << HandRecipe(OpUnary, walkType) >>
                   /\ cache = [t \in StructTypes |-> IF t = wt THEN 1 ELSE 0]
          /\ last = Last("init", "", NoCtx,
                         << [ptr |-> TRUE, elem |-> wt, base |-> 100] >>,
                         << >>, NoRes("nil", 0), FALSE)
    /\ pc = [th \in Threads |-> "idle"]
    /\ loc = [th \in Threads |-> LocInit]

(* prepareExecute up to the call of GetOrBuild.                            *)
Begin(th, t, ctx) ==
    /\ pc[th] = "idle"
    /\ Len(ConcWalked) # 0
    /\ elemType(ConcWalked[1]).err = "nil"
    /\ pc' = [pc EXCEPT ![th] = "get"]
    /\ loc' = [loc EXCEPT ![th] = [LocInit EXCEPT !.t = t, !.ctx = ctx]]
    /\ UNCHANGED <<grammar, registry, heap, cache, last>>

(* GetOrBuild: the cache lookup under the read lock.                       *)
CacheRead(th) ==
    /\ pc[th] = "get"
    /\ IF cache[ConcType] # 0
       THEN /\ loc' = [loc EXCEPT ![th].rcp = cache[ConcType]]
            /\ pc' = [pc EXCEPT ![th] = "check"]
       ELSE /\ pc' = [pc EXCEPT ![th] = "build"]
            /\ UNCHANGED loc
    /\ UNCHANGED <<grammar, registry, heap, cache, last>>

(* Build(wt, true): a fresh Recipe, inserted under the write lock.         *)
BuildInsert(th) ==
    /\ pc[th] = "build"
    /\ \E b \in { Build(heap, cache, ConcType, TRUE, grammar.walkType) } :
          /\ heap' = b.h
          /\ cache' = b.c
          /\ IF b.err # "nil" THEN Return(th, b.err)
             ELSE /\ loc' = [loc EXCEPT ![th].rcp = b.rcp]
                  /\ pc' = [pc EXCEPT ![th] = "check"]
    /\ UNCHANGED <<grammar, registry, last>>

(* resolveRecipe: the read of rcp.resolved.                                *)
CheckResolved(th) ==
    /\ pc[th] = "check"
    /\ \E work \in { IF heap[loc[th].rcp].resolved THEN << >>
                     ELSE WorkList(heap[loc[th].rcp].root, << >>) } :
          /\ loc' = [loc EXCEPT ![th].work = work]
          /\ pc' = [pc EXCEPT ![th] = IF work = << >> THEN "publish" ELSE "load"]
    /\ UNCHANGED <<grammar, registry, heap, cache, last>>

(* resolveTree, one reference: the registry lookup, the arity test, and   *)
(* the load of eTree.Operations that append extends.                       *)
LoadOperations(th) ==
    /\ pc[th] = "load"
    /\ LET w == Head(loc[th].work)
           rcp == heap[loc[th].rcp]
           node == NodeAt(rcp.root, w.path)
           r == resolveOperation(registry, node.lazy[w.i])
       IN  IF r.err # "nil" THEN Return(th, r.err)
           ELSE IF r.rOp.arity # rcp.arity THEN Return(th, "ErrArityMismatch")
           ELSE /\ loc' = [loc EXCEPT ![th].hdr = Append(node.ops, r.rOp)]
                /\ pc' = [pc EXCEPT ![th] = "store"]
    /\ UNCHANGED <<grammar, registry, heap, cache, last>>

(* resolveTree, one reference: the store of the extended slice.            *)
StoreOps(th) ==
    /\ pc[th] = "store"
    /\ LET w == Head(loc[th].work)
           rest == Tail(loc[th].work)
       IN  /\ heap' = [heap EXCEPT ![loc[th].rcp].root =
                          StoreOperations(@, w.path, loc[th].hdr)]
           /\ loc' = [loc EXCEPT ![th].work = rest, ![th].hdr = << >>]
           /\ pc' = [pc EXCEPT ![th] = IF rest = << >> THEN "publish" ELSE "load"]
    /\ UNCHANGED <<grammar, registry, cache, last>>

(* resolveRecipe: rcp.resolved = true.                                     *)
Publish(th) ==
    /\ pc[th] = "publish"
    /\ heap' = [heap EXCEPT ![loc[th].rcp].resolved = TRUE]
    /\ pc' = [pc EXCEPT ![th] = "set"]
    /\ UNCHANGED <<grammar, registry, cache, last, loc>>

(* resolveRecipe: builder.Set(wet, rcp) under the write lock.              *)
CacheSet(th) ==
    /\ pc[th] = "set"
    /\ \E r \in { Set(heap, cache, ConcType, loc[th].rcp) } :
          /\ cache' = r.c
          /\ IF r.err # "nil" THEN Return(th, r.err)
             ELSE /\ pc' = [pc EXCEPT ![th] = "walk"]
                  /\ UNCHANGED loc
    /\ UNCHANGED <<grammar, registry, heap, last>>

(* The rest of prepareExecute and the walk itself.                         *)
WalkStep(th) ==
    /\ pc[th] = "walk"
    /\ \E vals \in SourceVals :
       \E pe \in { prepareResolved(
                     [err |-> "nil", h |-> heap, c |-> cache, rcp |-> loc[th].rcp],
                     loc[th].ctx,
                     IF loc[th].t = "combine" THEN CombineWalk ELSE ApplyWalk,
                     ConcWalked, ConcType) } :
       \E r \in { IF loc[th].t = "combine" THEN combinePrepared(pe, ConcWalked)
                  ELSE applyPrepared(pe, ConcWalked, vals) } :
          /\ heap' = r.h
          /\ Return(th, r.err)
    /\ UNCHANGED <<grammar, registry, cache, last>>

NextConc ==
    \/ \E th \in Threads, t \in {"combine", "apply"}, ctx \in {NoCtx, OvrCtx} :
          Begin(th, t, ctx)
    \/ \E th \in Threads : CacheRead(th)
    \/ \E th \in Threads : BuildInsert(th)
    \/ \E th \in Threads : CheckResolved(th)
    \/ \E th \in Threads : LoadOperations(th)
    \/ \E th \in Threads : StoreOps(th)
    \/ \E th \in Threads : Publish(th)
    \/ \E th \in Threads : CacheSet(th)
    \/ \E th \in Threads : WalkStep(th)

SpecConc == InitConc /\ [][NextConc]_vars

(***************************************************************************)
(* Walk specification: one record type whose Recipe is already in the      *)
(* cache, either assembled by the caller or built by the Builder and then  *)
(* given its Arity by the caller (Recipe.Arity is an exported field that   *)
(* the Builder leaves at zero).  Both operation names are registered; the  *)
(* caller re-registers them with operations of both arities and of boolean *)
(* and string results, and walks one or more instances.                    *)
(***************************************************************************)
FoldFlat ==
    Node("R", 0, << >>, << >>, FirstSuccess,
         << Node("P", 0, << "a", "b" >>, << >>, AllOrNothing, << >>, TRUE, TRUE),
            Node("Q", 8, << "a" >>, << >>, AllOrNothing, << >>, TRUE, TRUE) >>,
         FALSE, FALSE)

FoldNested ==
    Node("R", 0, << >>, << >>, FirstSuccess,
         << Node("S", 16, << >>, << >>, FirstSuccess,
                 << Node("Q", 8, << "a" >>, << >>, AllOrNothing, << >>, TRUE, TRUE) >>,
                 TRUE, FALSE),
            Node("P", 0, << "a", "b" >>, << >>, AllOrNothing, << >>, TRUE, TRUE) >>,
         FALSE, FALSE)

(* The Recipe the Builder produces for T1, with Arity set by the caller.   *)
BuiltTuned(gwt) == [buildRecipe("T1", gwt).rcp EXCEPT !.arity = OpUnary]

WalkPlans(gwt) ==
    { Recipe(tree, OpUnary, gwt,
             IF gwt = CombineWalk THEN "and" ELSE "none",
             IF gwt = ApplyWalk THEN "reflect" ELSE "none", "none", FALSE) :
        tree \in {FoldFlat, FoldNested} }
    \cup { BuiltTuned(gwt) }

(* The i-th instance of T1 lies at its own address, so that the instances  *)
(* hold different field values.                                            *)
WalkInstance(i) == [ptr |-> TRUE, elem |-> "T1", base |-> 100 + 200 * (i - 1)]

WalkWalked == { [i \in 1..n |-> WalkInstance(i)] : n \in 1..MaxInst }

WalkOps ==
    [n \in OpNames |->
        IF n = "a" THEN { [impl |-> "yes", arity |-> OpUnary],
                          [impl |-> "sx", arity |-> OpUnary],
                          [impl |-> "yes", arity |-> OpVariadic] }
        ELSE { [impl |-> "yes", arity |-> OpUnary],
               [impl |-> "no", arity |-> OpUnary],
               [impl |-> "sy", arity |-> OpUnary] }]

InitWalk ==
    /\ grammar \in [walkType : {CombineWalk, ApplyWalk}]
    /\ registry \in { r \in [OpNames -> UNION { WalkOps[n] : n \in OpNames }] :
                        \A n \in OpNames : r[n] \in WalkOps[n] }
    /\ \E rcp \in WalkPlans(grammar.walkType) : heap = << rcp >>
    /\ cache = [t \in StructTypes |-> IF t = "T1" THEN 1 ELSE 0]
    /\ last = Last("init", "", NoCtx, << >>, << >>, NoRes("nil", 0), FALSE)
    /\ pc = [th \in Threads |-> "idle"]
    /\ loc = [th \in Threads |-> LocInit]

NextWalk ==
    \/ \E ctx \in {NoCtx, ConcatCtx}, walked \in WalkWalked : CombineCall(ctx, walked)
    \/ \E ctx \in {NoCtx}, walked \in WalkWalked, vals \in SourceVals :
          ApplyCall(ctx, walked, vals)
    \/ \E name \in OpNames : \E op \in WalkOps[name] : RegisterCall(name, op)

SpecWalk == InitWalk /\ [][NextWalk]_vars

(***************************************************************************)
(* Fold specification: the walk specification, whose callers also combine  *)
(* an instance of T0, a record type without mapped fields that the cache   *)
(* has not seen.                                                           *)
(***************************************************************************)
FoldEmpty == << [ptr |-> TRUE, elem |-> "T0", base |-> 500] >>

NextFold ==
    \/ \E ctx \in {NoCtx, ConcatCtx}, walked \in WalkWalked : CombineCall(ctx, walked)
    \/ \E ctx \in {NoCtx, ConcatCtx} : CombineCall(ctx, FoldEmpty)
    \/ \E name \in OpNames : \E op \in WalkOps[name] : RegisterCall(name, op)

SpecFold == InitWalk /\ [][NextFold]_vars

(***************************************************************************)
(* Failure specification: the walk specification with operations that      *)
(* fail.  Each name is registered with an operation that succeeds with     *)
(* true, succeeds with false, or returns an error.                         *)
(***************************************************************************)
FailOps ==
    [n \in OpNames |-> { [impl |-> "yes", arity |-> OpUnary],
                         [impl |-> "no", arity |-> OpUnary],
                         [impl |-> "fail", arity |-> OpUnary] }]

InitFail ==
    /\ grammar \in [walkType : {CombineWalk, ApplyWalk}]
    /\ registry \in { r \in [OpNames -> UNION { FailOps[n] : n \in OpNames }] :
                        \A n \in OpNames : r[n] \in FailOps[n] }
    /\ \E rcp \in WalkPlans(grammar.walkType) : heap = << rcp >>
    /\ cache = [t \in StructTypes |-> IF t = "T1" THEN 1 ELSE 0]
    /\ last = Last("init", "", NoCtx, << >>, << >>, NoRes("nil", 0), FALSE)
    /\ pc = [th \in Threads |-> "idle"]
    /\ loc = [th \in Threads |-> LocInit]

NextFail ==
    \/ \E walked \in WalkWalked : CombineCall(NoCtx, walked)
    \/ \E walked \in WalkWalked, vals \in SourceVals : ApplyCall(NoCtx, walked, vals)
    \/ \E name \in OpNames : \E op \in FailOps[name] : RegisterCall(name, op)

SpecFail == InitFail /\ [][NextFail]_vars

(***************************************************************************)
(* Registry specification: the caller registers operations of every        *)
(* implementation and arity under the two names.                           *)
(***************************************************************************)
AllOps == [impl : OpImpls, arity : {OpUnary, OpVariadic}]

NextReg == \E name \in OpNames, op \in AllOps : RegisterCall(name, op)

SpecReg == Init /\ [][NextReg]_vars

(***************************************************************************)
(* Build specification: concurrent callers of Build, GetOrBuild and Set,   *)
(* with buildTree taken one field at a time.  The Recipe a caller is       *)
(* building is an object of the heap that only the caller references       *)
(* (loc[th].rcp) until Build inserts it into the cache under the write     *)
(* lock; loc[th].hdr holds the type of the call and loc[th].work the       *)
(* fields still to visit.                                                  *)
(***************************************************************************)
StepTypes == BuildTypes \cap StructTypes

(* Variant of AllocTree that inserts the Recipe into the cache as soon as  *)
(* its root node exists.                                                   *)
AllocTreePublished(th) ==
    /\ pc[th] = "alloc"
    /\ Len(heap) < MaxPlans
    /\ LET wt == loc[th].hdr[1]
       IN  /\ heap' = Append(heap,
                        Recipe(Node(wt, 0, << >>, << >>, FirstSuccess, << >>, FALSE, FALSE),
                               0, 0, "none", "none", "none", FALSE))
           /\ cache' = [cache EXCEPT ![wt] = Len(heap) + 1]
           /\ loc' = [loc EXCEPT ![th].rcp = Len(heap) + 1, ![th].work = Layout[wt]]
    /\ pc' = [pc EXCEPT ![th] = "fields"]
    /\ UNCHANGED <<grammar, registry, last>>

(* Build(wt, cache) is called.                                             *)
BuildEnter(th, wt, doCache) ==
    /\ pc[th] = "idle"
    /\ pc' = [pc EXCEPT ![th] = "alloc"]
    /\ loc' = [loc EXCEPT ![th] =
                 [LocInit EXCEPT !.t = IF doCache THEN "buildCached" ELSE "build",
                                 !.hdr = << wt >>]]
    /\ UNCHANGED <<grammar, registry, heap, cache, last>>

(* GetOrBuild(wt): the cache lookup under the read lock; a hit returns the *)
(* cached Recipe, a miss goes on to Build(wt, true).                       *)
LookupStep(th, wt) ==
    /\ pc[th] = "idle"
    /\ IF cache[wt] # 0
       THEN /\ pc' = [pc EXCEPT ![th] = "done"]
            /\ loc' = [loc EXCEPT ![th] =
                         [LocInit EXCEPT !.t = "getOrBuild", !.hdr = << wt >>,
                                         !.rcp = cache[wt]]]
       ELSE /\ pc' = [pc EXCEPT ![th] = "alloc"]
            /\ loc' = [loc EXCEPT ![th] =
                         [LocInit EXCEPT !.t = "getOrBuild", !.hdr = << wt >>]]
    /\ UNCHANGED <<grammar, registry, heap, cache, last>>

(* buildTree: the root node is allocated.                                  *)
AllocTree(th) ==
    /\ pc[th] = "alloc"
    /\ Len(heap) < MaxPlans
    /\ LET wt == loc[th].hdr[1]
       IN  /\ heap' = Append(heap,
                        Recipe(Node(wt, 0, << >>, << >>, FirstSuccess, << >>, FALSE, FALSE),
                               0, 0, "none", "none", "none", FALSE))
           /\ loc' = [loc EXCEPT ![th].rcp = Len(heap) + 1, ![th].work = Layout[wt]]
    /\ pc' = [pc EXCEPT ![th] = "fields"]
    /\ UNCHANGED <<grammar, registry, cache, last>>

(* buildTree: one iteration of the loop over the fields.                   *)
FieldStep(th) ==
    /\ pc[th] = "fields"
    /\ \E r \in { buildFields(<< Head(loc[th].work) >>, 1, heap[loc[th].rcp].root) } :
          IF r.err # "nil"
          THEN /\ Return(th, r.err)
               /\ UNCHANGED heap
          ELSE /\ heap' = [heap EXCEPT ![loc[th].rcp].root = r.tree]
               /\ loc' = [loc EXCEPT ![th].work = Tail(@)]
               /\ pc' = [pc EXCEPT ![th] =
                           IF Len(loc[th].work) = 1 THEN "strategy" ELSE "fields"]
    /\ UNCHANGED <<grammar, registry, cache, last>>

(* buildRecipe: the walk type and the grammar's strategy object.           *)
StrategyStep(th) ==
    /\ pc[th] = "strategy"
    /\ \E b \in { buildRecipe(loc[th].hdr[1], grammar.walkType) } :
          /\ heap' = [heap EXCEPT ![loc[th].rcp] =
                        [b.rcp EXCEPT !.root = heap[loc[th].rcp].root]]
          /\ IF b.err # "nil" THEN Return(th, b.err)
             ELSE IF loc[th].t = "build" THEN Return(th, "nil")
             ELSE /\ pc' = [pc EXCEPT ![th] = "insert"]
                  /\ UNCHANGED loc
    /\ UNCHANGED <<grammar, registry, cache, last>>

(* Build: b.cache[wt] = rcp under the write lock.                          *)
InsertStep(th) ==
    /\ pc[th] = "insert"
    /\ cache' = [cache EXCEPT ![loc[th].hdr[1]] = loc[th].rcp]
    /\ Return(th, "nil")
    /\ UNCHANGED <<grammar, registry, heap, last>>

(* Set(wt, rcp) with a Recipe the caller assembled.                        *)
SetStep(th, wt) ==
    /\ pc[th] = "idle"
    /\ Len(heap) < MaxPlans
    /\ \E r \in { Set(Append(heap, HandRecipe(OpUnary, grammar.walkType)), cache, wt,
                      Len(heap) + 1) } :
          /\ heap' = r.h
          /\ cache' = r.c
          /\ pc' = [pc EXCEPT ![th] = "done"]
          /\ loc' = [loc EXCEPT ![th] =
                       [LocInit EXCEPT !.t = "set", !.hdr = << wt >>, !.rcp = r.rcp]]
    /\ UNCHANGED <<grammar, registry, last>>

(* The caller goes on to its next call.                                    *)
NextCall(th) ==
    /\ pc[th] = "done"
    /\ pc' = [pc EXCEPT ![th] = "idle"]
    /\ loc' = [loc EXCEPT ![th] = LocInit]
    /\ UNCHANGED <<grammar, registry, heap, cache, last>>

InitBuild ==
    /\ grammar \in [walkType : {CombineWalk, ApplyWalk}]
    /\ registry = [n \in OpNames |-> NoOp]
    /\ heap = << >>
    /\ cache = [t \in StructTypes |-> 0]
    /\ last = Last("init", "", NoCtx, << >>, << >>, NoRes("nil", 0), FALSE)
    /\ pc = [th \in Threads |-> "idle"]
    /\ loc = [th \in Threads |-> LocInit]

NextBuild ==
    \/ \E th \in Threads, wt \in StepTypes, doCache \in BOOLEAN : BuildEnter(th, wt, doCache)
    \/ \E th \in Threads, wt \in StepTypes : LookupStep(th, wt)
    \/ \E th \in Threads : AllocTree(th)
    \/ \E th \in Threads : FieldStep(th)
    \/ \E th \in Threads : StrategyStep(th)
    \/ \E th \in Threads : InsertStep(th)
    \/ \E th \in Threads, wt \in {"T1"} : SetStep(th, wt)
    \/ \E th \in Threads : NextCall(th)

SpecBuild == InitBuild /\ [][NextBuild]_vars

(***************************************************************************)
(* Grammar configuration (grammarConfig).  In this specification the       *)
(* variable grammar is the configuration object a caller builds up:        *)
(* walkType, the shared-modifier map sharedMods (isNil tells a nil map     *)
(* from an empty one; NoSpec marks an absent key) and the walk state       *)
(* machine walkFSM.  A state machine is a value: nil, a machine supplied   *)
(* by the caller ("prim"), the identity closure WrapExecFSM substitutes    *)
(* for a nil machine ("id"), or the closure WrapExecFSM builds ("wrap").   *)
(* ExecState is a small range of numbers.                                  *)
(***************************************************************************)
MaxWraps == 2

NumExecStates == 4

ExecStates == 0..(NumExecStates - 1)

ModTypeKeyVal == 1
ModTypeKeyOnly == 2
ModUseExec == 1
ModKindBool == 1
ModKindInt == 2

ModKeys == {"omitempty", "default"}

NoSpec == [modkey |-> "", use |-> 0, kind |-> 0, format |-> 0]

ModifierSpec(modkey, fmt, use, kind) ==
    [modkey |-> modkey, use |-> use, kind |-> kind, format |-> fmt]

NilFSM == [k |-> "nil"]

IdFSM == [k |-> "id"]

PrimFSM(f) == [k |-> "prim", f |-> f]

(* The state machines a caller supplies: two functions on ExecState that   *)
(* do not commute.                                                         *)
CallerFSMs == { PrimFSM("inc"), PrimFSM("dbl") }

PrimStep(f, val, err, current) ==
    IF f = "inc" THEN (current + 1) % NumExecStates
    ELSE IF err THEN 0 ELSE (2 * current) % NumExecStates

(* A call of the state machine m; calling a nil machine panics (-1).       *)
RECURSIVE RunFSM(_, _, _, _)
RunFSM(m, val, err, current) ==
    CASE m.k = "nil" -> -1
      [] m.k = "id" -> current
      [] m.k = "prim" -> PrimStep(m.f, val, err, current)
      [] OTHER ->
           LET c1 == IF m.callBefore THEN RunFSM(m.wrapper, val, err, current) ELSE current
               c2 == RunFSM(m.previous, val, err, c1)
           IN  IF ~m.callBefore THEN RunFSM(m.wrapper, val, err, c2) ELSE c2

RECURSIVE WrapDepth(_)
WrapDepth(m) == IF m.k = "wrap" THEN 1 + WrapDepth(m.previous) ELSE 0

(* The keys newDefaultGrammarConfig adds, besides those of the callers.    *)
DefaultModKeys == {"omitnil", "omitempty", "omiterr", "default"}

NewGrammarConfig(walkType) ==
    [key |-> "", walkType |-> walkType, maxOps |-> 0, operations |-> {},
     sharedMods |-> [isNil |-> TRUE,
                     m |-> [k \in ModKeys \cup DefaultModKeys |-> NoSpec]],
     walkFSM |-> NilFSM]

(* grammarConfig.AddSharedModifier: the map is created when nil, and the   *)
(* specification is computed in the local variable spec, which is not      *)
(* stored into the map.                                                    *)
AddSharedModifier(cfg, modkey, fmt, use, kind) ==
    LET sharedMods == [cfg.sharedMods EXCEPT !.isNil = FALSE]
        exists == sharedMods.m[modkey] # NoSpec
        spec == IF ~exists THEN ModifierSpec(modkey, fmt, use, kind)
                ELSE [sharedMods.m[modkey] EXCEPT !.format = fmt, !.use = use, !.kind = kind]
    IN  [cfg EXCEPT !.sharedMods = sharedMods]

SetExecFSM(cfg, controller) == [cfg EXCEPT !.walkFSM = controller]

(* Variant of WrapExecFSM that calls the wrapper after the previous        *)
(* machine whatever callBefore says.                                       *)
WrapExecFSMAlwaysAfter(cfg, walkFSM, callBefore) ==
    LET previous == IF cfg.walkFSM = NilFSM THEN IdFSM ELSE cfg.walkFSM
    IN  [cfg EXCEPT !.walkFSM =
            [k |-> "wrap", wrapper |-> walkFSM, previous |-> previous,
             callBefore |-> FALSE]]

WrapExecFSM(cfg, walkFSM, callBefore) ==
    LET previous == IF cfg.walkFSM = NilFSM THEN IdFSM ELSE cfg.walkFSM
    IN  [cfg EXCEPT !.walkFSM =
            [k |-> "wrap", wrapper |-> walkFSM, previous |-> previous,
             callBefore |-> callBefore]]

AddSharedModifierCall(modkey, fmt, use, kind) ==
    /\ grammar' = AddSharedModifier(grammar, modkey, fmt, use, kind)
    /\ last' = Last("addSharedModifier", modkey, NoCtx, << >>, << fmt, use, kind >>,
                    NoRes("nil", 0), FALSE)
    /\ UNCHANGED <<registry, heap, cache, pc, loc>>

SetExecFSMCall(fsm) ==
    /\ grammar' = SetExecFSM(grammar, fsm)
    /\ last' = Last("setExecFSM", "", NoCtx, << >>, << fsm >>, NoRes("nil", 0), FALSE)
    /\ UNCHANGED <<registry, heap, cache, pc, loc>>

WrapExecFSMCall(wrapper, callBefore) ==
    /\ WrapDepth(grammar.walkFSM) < MaxWraps
    /\ grammar' = WrapExecFSM(grammar, wrapper, callBefore)
    /\ last' = Last("wrapExecFSM", "", NoCtx, << >>, << wrapper, callBefore >>,
                    NoRes("nil", 0), FALSE)
    /\ UNCHANGED <<registry, heap, cache, pc, loc>>

InitCfg ==
    /\ grammar = NewGrammarConfig(0)
    /\ registry = [n \in OpNames |-> NoOp]
    /\ heap = << >>
    /\ cache = [t \in StructTypes |-> 0]
    /\ last = Last("init", "", NoCtx, << >>, << >>, NoRes("nil", 0), FALSE)
    /\ pc = [th \in Threads |-> "idle"]
    /\ loc = [th \in Threads |-> LocInit]

NextCfg ==
    \/ \E modkey \in ModKeys, fmt \in {ModTypeKeyVal, ModTypeKeyOnly},
          kind \in {ModKindBool, ModKindInt} :
          AddSharedModifierCall(modkey, fmt, ModUseExec, kind)
    \/ \E fsm \in CallerFSMs : SetExecFSMCall(fsm)
    \/ \E wrapper \in CallerFSMs, callBefore \in BOOLEAN :
          WrapExecFSMCall(wrapper, callBefore)

SpecCfg == InitCfg /\ [][NextCfg]_vars

(***************************************************************************)
(* Flat grammar configuration.  In this specification the variable grammar *)
(* is the interface value the caller holds after a chain of calls: dyn is  *)
(* its dynamic type ("nil" for the nil interface, "grammarConfig" for a    *)
(* *grammarConfig, "flatGrammarConfig" for a *flatGrammarConfig), flat     *)
(* tells whether the pointer lies inside a flatGrammarConfig object, and   *)
(* grammarConfig, format and separator are that object's fields.  The      *)
(* common setters have the receiver *grammarConfig and return it: called   *)
(* on a *flatGrammarConfig they are promoted from the embedded struct and  *)
(* return the pointer to the embedded grammarConfig.                       *)
(***************************************************************************)
FFormatInvalid == 0
FFormatDelimited == 1
FFormatEnclosed == 2

FTemplateInvalid == 0
FTemplateInlineComma == 1
FTemplateInlineSemi == 2
FTemplateInlinePipe == 3
FTemplatePairSquare == 4
FTemplatePairCurly == 5
FTemplatePairParen == 6

FSepPairSquare == "[]"
FSepPairCurl == "{}"
FSepPairParen == "()"
FSepInlineCommma == ","
FSepInlinePipe == "|"
FSepInlineSemi == ";"

ModKindConverted == 255

DefaultMaxGrammarOps == 4

FlatTemplates == FTemplateInvalid..FTemplatePairParen

FlatFormats == {FFormatInvalid, FFormatDelimited, FFormatEnclosed}

FlatSeparators ==
    {FSepPairSquare, FSepPairCurl, FSepPairParen,
     FSepInlineCommma, FSepInlinePipe, FSepInlineSemi}

ErrUnstructured == "Cannot build unstructured grammar; must specify structure"
ErrDelimitedSep == "Invalid separator length for delimited flat format (want 1)"
ErrEnclosedSep == "Invalid separator length for enclosed flat format (want 2)"
ErrUnknownFormat == "Unknown flat grammar format"

ConfigValue(dyn, flat, gc, format, separator) ==
    [dyn |-> dyn, flat |-> flat, grammarConfig |-> gc,
     format |-> format, separator |-> separator]

NilConfig == ConfigValue("nil", FALSE, NewGrammarConfig(0), FFormatInvalid, "")

PlainConfig(gc) == ConfigValue("grammarConfig", FALSE, gc, FFormatInvalid, "")

(* The value a common setter returns: the receiver *grammarConfig.         *)
ReturnReceiver(cfg, gc) == [cfg EXCEPT !.dyn = "grammarConfig", !.grammarConfig = gc]

SetKey(cfg, key) == ReturnReceiver(cfg, [cfg.grammarConfig EXCEPT !.key = key])

SetWalkType(cfg, walkType) ==
    ReturnReceiver(cfg, [cfg.grammarConfig EXCEPT !.walkType = walkType])

SetMaxOperations(cfg, maxOps) ==
    ReturnReceiver(cfg, [cfg.grammarConfig EXCEPT !.maxOps = maxOps])

AddOperation(cfg, opkey) ==
    ReturnReceiver(cfg, [cfg.grammarConfig EXCEPT !.operations = @ \cup {opkey}])

(* grammarConfig.SetFlatStructure: a new flatGrammarConfig holding a copy  *)
(* of the receiver, with the zero format and separator.                    *)
SetFlatStructure(cfg) ==
    ConfigValue("flatGrammarConfig", TRUE, cfg.grammarConfig, FFormatInvalid, "")

SetFormat(cfg, fmt, sep) == [cfg EXCEPT !.format = fmt, !.separator = sep]

validate(cfg) ==
    CASE cfg.format = FFormatDelimited ->
            IF Len(cfg.separator) # 1 THEN ErrDelimitedSep ELSE "nil"
      [] cfg.format = FFormatEnclosed ->
            IF Len(cfg.separator) # 2 THEN ErrEnclosedSep ELSE "nil"
      [] OTHER -> ErrUnknownFormat

(* Build, dispatched on the dynamic type of the interface value.           *)
ConfigBuild(cfg) ==
    CASE cfg.dyn = "nil" -> "panic"
      [] cfg.dyn = "grammarConfig" -> ErrUnstructured
      [] OTHER -> validate(cfg)

newDefaultGrammarConfig ==
    LET c0 == PlainConfig(NewGrammarConfig(0))
        c1 == SetMaxOperations(c0, DefaultMaxGrammarOps)
        g2 == AddSharedModifier(c1.grammarConfig, "omitnil", ModTypeKeyOnly, ModUseExec, ModKindBool)
        g3 == AddSharedModifier(g2, "omitempty", ModTypeKeyOnly, ModUseExec, ModKindBool)
        g4 == AddSharedModifier(g3, "omiterr", ModTypeKeyOnly, ModUseExec, ModKindBool)
        g5 == AddSharedModifier(g4, "default", ModTypeKeyVal, ModUseExec, ModKindConverted)
    IN  ReturnReceiver(c1, g5)

NewFlatConfigFromTemplate(template) ==
    CASE template = FTemplateInlineComma ->
            SetFormat(SetFlatStructure(newDefaultGrammarConfig), FFormatDelimited, FSepInlineCommma)
      [] template = FTemplateInlineSemi ->
            SetFormat(SetFlatStructure(newDefaultGrammarConfig), FFormatDelimited, FSepInlineSemi)
      [] template = FTemplatePairSquare ->
            SetFormat(SetFlatStructure(newDefaultGrammarConfig), FFormatEnclosed, FSepPairSquare)
      [] template = FTemplatePairCurly ->
            SetFormat(SetFlatStructure(newDefaultGrammarConfig), FFormatEnclosed, FSepPairCurl)
      [] template = FTemplatePairParen ->
            SetFormat(SetFlatStructure(newDefaultGrammarConfig), FFormatEnclosed, FSepPairParen)
      [] OTHER -> NilConfig

(* The record of one call of the chain; the caller keeps the returned      *)
(* value in grammar.  The setters are not called on the nil interface.     *)
ConfigLast(op, args, err) == Last(op, "", NoCtx, << >>, args, NoRes(err, 0), FALSE)

NewGrammarConfigCall ==
    /\ grammar' = PlainConfig(NewGrammarConfig(0))
    /\ last' = ConfigLast("newGrammarConfig", << >>, "nil")
    /\ UNCHANGED <<registry, heap, cache, pc, loc>>

NewFlatConfigFromTemplateCall(template) ==
    /\ grammar' = NewFlatConfigFromTemplate(template)
    /\ last' = ConfigLast("newFlatConfigFromTemplate", << template >>, "nil")
    /\ UNCHANGED <<registry, heap, cache, pc, loc>>

SetKeyCall(key) ==
    /\ grammar.dyn # "nil"
    /\ grammar' = SetKey(grammar, key)
    /\ last' = ConfigLast("setKey", << key >>, "nil")
    /\ UNCHANGED <<registry, heap, cache, pc, loc>>

SetWalkTypeCall(walkType) ==
    /\ grammar.dyn # "nil"
    /\ grammar' = SetWalkType(grammar, walkType)
    /\ last' = ConfigLast("setWalkType", << walkType >>, "nil")
    /\ UNCHANGED <<registry, heap, cache, pc, loc>>

SetMaxOperationsCall(maxOps) ==
    /\ grammar.dyn # "nil"
    /\ grammar' = SetMaxOperations(grammar, maxOps)
    /\ last' = ConfigLast("setMaxOperations", << maxOps >>, "nil")
    /\ UNCHANGED <<registry, heap, cache, pc, loc>>

AddOperationCall(opkey) ==
    /\ grammar.dyn # "nil"
    /\ grammar' = AddOperation(grammar, opkey)
    /\ last' = ConfigLast("addOperation", << opkey >>, "nil")
    /\ UNCHANGED <<registry, heap, cache, pc, loc>>

SetFlatStructureCall ==
    /\ grammar.dyn # "nil"
    /\ grammar' = SetFlatStructure(grammar)
    /\ last' = ConfigLast("setFlatStructure", << >>, "nil")
    /\ UNCHANGED <<registry, heap, cache, pc, loc>>

(* SetFormat belongs to FlatGrammarConfig only: the caller can call it on  *)
(* what SetFlatStructure, SetFormat or a template returned.                *)
SetFormatCall(fmt, sep) ==
    /\ grammar.dyn = "flatGrammarConfig"
    /\ grammar' = SetFormat(grammar, fmt, sep)
    /\ last' = ConfigLast("setFormat", << fmt, sep >>, "nil")
    /\ UNCHANGED <<registry, heap, cache, pc, loc>>

ConfigBuildCall ==
    /\ last' = ConfigLast("build", << >>, ConfigBuild(grammar))
    /\ UNCHANGED <<grammar, registry, heap, cache, pc, loc>>

InitFlat ==
    /\ grammar = PlainConfig(NewGrammarConfig(0))
    /\ registry = [n \in OpNames |-> NoOp]
    /\ heap = << >>
    /\ cache = [t \in StructTypes |-> 0]
    /\ last = Last("init", "", NoCtx, << >>, << >>, NoRes("nil", 0), FALSE)
    /\ pc = [th \in Threads |-> "idle"]
    /\ loc = [th \in Threads |-> LocInit]

NextFlat ==
    \/ NewGrammarConfigCall
    \/ \E template \in FlatTemplates : NewFlatConfigFromTemplateCall(template)
    \/ \E key \in {"g"} : SetKeyCall(key)
    \/ \E walkType \in {CombineWalk} : SetWalkTypeCall(walkType)
    \/ \E maxOps \in {1} : SetMaxOperationsCall(maxOps)
    \/ \E opkey \in {"a"} : AddOperationCall(opkey)
    \/ SetFlatStructureCall
    \/ \E fmt \in FlatFormats, sep \in FlatSeparators : SetFormatCall(fmt, sep)
    \/ ConfigBuildCall

SpecFlat == InitFlat /\ [][NextFlat]_vars

(***************************************************************************)
(* Properties.                                                             *)
(***************************************************************************)
IsWalk(l) == l.op \in {"combine", "apply"}

CallMode(l) == IF l.op = "combine" THEN CombineWalk ELSE ApplyWalk

(* The Recipe the cache holds for the first walked argument's type, or 0.  *)
CachedFor(l) ==
    IF Len(l.walked) > 0 /\ elemType(l.walked[1]).err = "nil"
    THEN cache[l.walked[1].elem] ELSE 0

ExecsOf(log, node) == SelectSeq(log, LAMBDA e : e.ev = "exec" /\ e.node = node)

(* C1: for a leaf under FirstSuccess with exactly two operations [A, B]:   *)
(* when A succeeds B is not invoked for that leaf in the call; when A      *)
(* fails B is invoked next with the same sources A received.               *)
C1_FirstSuccessTriesNext ==
    (IsWalk(last) /\ last.rcp # 0) =>
        LET ns == Nodes(heap[last.rcp].root)
        IN  \A n \in 1..Len(ns) :
              LET leaf == ns[n]
                  ex == ExecsOf(last.log, leaf.name)
              IN  (~hasChild(leaf) /\ leaf.strat = FirstSuccess
                   /\ Len(leaf.ops) = 2 /\ Len(ex) > 0) =>
                     /\ ex[1].op = leaf.ops[1].name
                     /\ IF OpExecute(ex[1].impl, ex[1].srcs).err = "nil"
                        THEN Len(ex) = 1
                        ELSE /\ Len(ex) = 2
                             /\ ex[2].op = leaf.ops[2].name
                             /\ ex[2].srcs = ex[1].srcs

(* C2: a call made without an override context runs with the strategy the *)
(* Recipe was created with (BoolAndCombiner / ReflectSetterApplier), also  *)
(* after earlier calls that carried an override.                           *)
C2_OverrideNotPersisted ==
    (IsWalk(last) /\ last.ctx.isNil /\ last.rcp # 0) =>
        last.used \in {"and", "reflect"}

(* C3: a combine/apply call leaves the tree of a Recipe that is already    *)
(* resolved exactly as it is: no operation is appended by re-resolution.   *)
C3_ReResolutionIdempotent ==
    [][IsWalk(last') =>
         \A t \in StructTypes :
            (cache[t] # 0 /\ heap[cache[t]].resolved) =>
               /\ cache'[t] # 0
               /\ heap'[cache'[t]].resolved
               /\ heap'[cache'[t]].root = heap[cache[t]].root]_vars

C3_Witness ==
    /\ IsWalk(last) /\ last.pres /\ last.err = "nil" /\ last.rcp # 0
    /\ \E n \in 1..Len(Nodes(heap[last.rcp].root)) :
          Nodes(heap[last.rcp].root)[n].ops # << >>

(* C4: when resolution aborts, the cached Recipe of that type is not       *)
(* marked resolved and all its nodes have an empty resolved-operation list.*)
C4_NoPartialResolutionPublished ==
    (IsWalk(last) /\ last.err \in {"ErrOpNotFound", "ErrArityMismatch"}
     /\ CachedFor(last) # 0) =>
        LET rcp == heap[CachedFor(last)]
            ns == Nodes(rcp.root)
        IN  /\ ~rcp.resolved
            /\ \A n \in 1..Len(ns) : ns[n].ops = << >>

(* C5: a call that resolves the Recipe (also after earlier failed          *)
(* resolutions) leaves every node with exactly one resolved operation per  *)
(* operation reference, in reference order.                                *)
C5_RetryResolvesFromScratch ==
    (IsWalk(last) /\ ~last.pres /\ CachedFor(last) # 0
     /\ heap[CachedFor(last)].resolved) =>
        LET ns == Nodes(heap[CachedFor(last)].root)
        IN  \A n \in 1..Len(ns) : OpNamesOf(ns[n].ops) = ns[n].lazy

(* C6: under any interleaving of concurrent combine/apply calls for the    *)
(* same record type, once every call has returned (here: without error),   *)
(* every leaf of every Recipe holds exactly as many resolved operations    *)
(* as operation references.                                                *)
C6_ConcurrentBoundOnce ==
    (\A th \in Threads : pc[th] = "done" /\ loc[th].err = "nil") =>
        \A i \in 1..Len(heap) :
            LET ns == Nodes(heap[i].root)
            IN  \A n \in 1..Len(ns) :
                    ~hasChild(ns[n]) => Len(ns[n].ops) = Len(ns[n].lazy)

SkippableTag(f) == f.exported /\ f.kind # "struct" /\ f.tag \in {"", "-"}

HasSkippableField(t) ==
    /\ t \in StructTypes
    /\ \E i \in 1..Len(Layout[t]) : SkippableTag(Layout[t][i])

(* C7: building a Recipe for a record type whose only irregularity is an   *)
(* exported non-record field with a missing, empty or "-" tag succeeds,    *)
(* and the tree has no node for that field.                                *)
C7_UntaggedFieldSkipped ==
    (last.op \in {"build", "buildCached", "getOrBuild"} /\ HasSkippableField(last.t)) =>
        /\ last.err = "nil"
        /\ cache[last.t] # 0 =>
             \A k \in 1..Len(heap[cache[last.t]].root.kids) :
                \A i \in 1..Len(Layout[last.t]) :
                   SkippableTag(Layout[last.t][i]) =>
                      heap[cache[last.t]].root.kids[k].name # Layout[last.t][i].name

(* C8: a call whose instances are of two different record types fails with *)
(* ErrWalkArgsMismatch and reads no field, applies nothing and executes no *)
(* operation.                                                              *)
TwoRecordTypes(walked) ==
    /\ \A i \in 1..Len(walked) : elemType(walked[i]).err = "nil"
    /\ \E i, j \in 1..Len(walked) : walked[i].elem # walked[j].elem

C8_MixedTypesRejectedFirst ==
    (IsWalk(last) /\ TwoRecordTypes(last.walked)) =>
        /\ last.err = "ErrWalkArgsMismatch"
        /\ last.log = << >>

(* C9: a call with zero instances returns the 'no walked arguments' error  *)
(* and changes nothing: no Recipe is built, resolved or cached and nothing *)
(* is executed.                                                            *)
C9_ZeroInstancesRejected ==
    [][(IsWalk(last') /\ Len(last'.walked) = 0) =>
         /\ last'.err = "ErrNoWalked"
         /\ last'.log = << >>
         /\ heap' = heap
         /\ cache' = cache
         /\ registry' = registry]_vars

C9_Witness ==
    /\ IsWalk(last) /\ Len(last.walked) = 0 /\ last.err = "ErrNoWalked"
    /\ \E t \in StructTypes : cache[t] # 0

(* C10 (as stated): a call whose mode differs from the walk mode of the    *)
(* record type's Recipe fails with ErrWalkTypeMismatch and executes        *)
(* nothing.                                                                *)
ModeDiffers(l) ==
    /\ IsWalk(l)
    /\ CachedFor(l) # 0
    /\ heap[CachedFor(l)].walkType # CallMode(l)

C10_WalkTypeMismatchAlways ==
    ModeDiffers(last) =>
        /\ last.err = "ErrWalkTypeMismatch"
        /\ last.log = << >>

(* C10 (amended): such a call always fails and executes nothing; the error *)
(* is ErrWalkTypeMismatch whenever the Recipe could be resolved, and the   *)
(* resolution error otherwise.                                             *)
C10_WalkTypeMismatchAfterResolve ==
    ModeDiffers(last) =>
        /\ last.err # "nil"
        /\ last.log = << >>
        /\ IF heap[CachedFor(last)].resolved
           THEN last.err = "ErrWalkTypeMismatch"
           ELSE last.err \in {"ErrOpNotFound", "ErrArityMismatch"}

C10_Witness ==
    /\ ModeDiffers(last)
    /\ last.err = "ErrWalkTypeMismatch"
    /\ heap[CachedFor(last)].root.kids # << >>

(* Whether some operation the Recipe references is registered with an     *)
(* arity other than the Recipe's.                                          *)
ArityMismatched(rcp) ==
    LET ns == Nodes(rcp.root)
    IN  \E n \in 1..Len(ns) : \E i \in 1..Len(ns[n].lazy) :
           /\ registry[ns[n].lazy[i]] # NoOp
           /\ registry[ns[n].lazy[i]].arity # rcp.arity

NoExec(log) == \A k \in 1..Len(log) : log[k].ev # "exec"

(* C11 (as stated): when an operation a Recipe references is registered    *)
(* with an arity other than the Recipe's, every combine/apply call on that *)
(* Recipe fails and executes no operation.                                 *)
C11_ArityMismatchAlwaysFails ==
    (IsWalk(last) /\ CachedFor(last) # 0 /\ ArityMismatched(heap[CachedFor(last)])) =>
        /\ last.err # "nil"
        /\ NoExec(last.log)

(* C11 (amended): a call that finds the Recipe not yet resolved while a    *)
(* referenced operation is registered with another arity fails in          *)
(* resolution, executes nothing and leaves the Recipe unresolved; every    *)
(* operation bound into a Recipe has the Recipe's arity.                   *)
C11_ArityMismatchFailsResolution ==
    /\ (IsWalk(last) /\ ~last.pres /\ CachedFor(last) # 0
         /\ ArityMismatched(heap[CachedFor(last)])) =>
           /\ last.err \in {"ErrArityMismatch", "ErrOpNotFound"}
           /\ NoExec(last.log)
           /\ ~heap[CachedFor(last)].resolved
    /\ \A i \in 1..Len(heap) :
          LET ns == Nodes(heap[i].root)
          IN  \A n \in 1..Len(ns) : \A k \in 1..Len(ns[n].ops) :
                 ns[n].ops[k].arity = heap[i].arity

C11_Witness ==
    /\ IsWalk(last) /\ ~last.pres /\ CachedFor(last) # 0
    /\ ArityMismatched(heap[CachedFor(last)])
    /\ last.err = "ErrArityMismatch"
    /\ hasChild(heap[CachedFor(last)].root)

(* The leaves of a tree, each with the offset `owner` of the record that  *)
(* directly holds the field (relative to the instance) and the field's     *)
(* offset `off` inside that record.                                        *)
RECURSIVE LeafAddrs(_, _, _)
LeafAddrs(kids, j, owner) ==
    IF j > Len(kids) THEN << >>
    ELSE (IF hasChild(kids[j])
          THEN LeafAddrs(kids[j].kids, 1, owner + kids[j].off)
          ELSE << [name |-> kids[j].name, owner |-> owner, off |-> kids[j].off] >>)
         \o LeafAddrs(kids, j + 1, owner)

AppliesOf(log, node) == SelectSeq(log, LAMBDA e : e.ev = "apply" /\ e.node = node)

(* C12: in a successful apply call with N instances every operation result *)
(* of a leaf is handed to the Applier N times, in instance order, each     *)
(* time with the address of the record that holds the field and the        *)
(* field's offset in that record.                                          *)
C12_AppliedOncePerInstance ==
    (last.op = "apply" /\ last.err = "nil" /\ last.rcp # 0) =>
        LET lv == LeafAddrs(heap[last.rcp].root.kids, 1, 0)
            N == Len(last.walked)
        IN  \A n \in 1..Len(lv) :
              LET ap == AppliesOf(last.log, lv[n].name)
                  ex == ExecsOf(last.log, lv[n].name)
              IN  /\ Len(ap) = Len(ex) * N
                  /\ \A k \in 1..Len(ap) :
                        /\ ap[k].ptr = last.walked[((k - 1) % N) + 1].base + lv[n].owner
                        /\ ap[k].off = lv[n].off
                        /\ ap[k].val = OpExecute(ex[((k - 1) \div N) + 1].impl,
                                                 ex[((k - 1) \div N) + 1].srcs).val

(* C13: in a combine call every operation of a leaf receives one source   *)
(* value per instance, in instance order, the i-th being the value stored  *)
(* in the i-th instance at the owning record's address plus the field's    *)
(* offset.                                                                 *)
C13_SourcesAreFieldValues ==
    (last.op = "combine" /\ last.rcp # 0) =>
        LET lv == LeafAddrs(heap[last.rcp].root.kids, 1, 0)
            N == Len(last.walked)
        IN  \A n \in 1..Len(lv) :
              LET ex == ExecsOf(last.log, lv[n].name)
              IN  \A k \in 1..Len(ex) :
                     /\ Len(ex[k].srcs) = N
                     /\ \A i \in 1..N :
                           ex[k].srcs[i] =
                              Mem(last.walked[i].base + lv[n].owner + lv[n].off)

(* The leaves of a tree in depth-first field-declaration order.            *)
Leaves(eTree) == SelectSeq(Nodes(eTree), LAMBDA n : ~hasChild(n))

(* A tree the walk can run over: every child carries the accessors the     *)
(* walk calls, every leaf folds AllOrNothing, and every bound operation's  *)
(* implementation is one of impls.                                         *)
Foldable(eTree, impls) ==
    LET ns == Nodes(eTree)
    IN  \A n \in 2..Len(ns) :
           /\ ns[n].addr
           /\ ~hasChild(ns[n]) =>
                 /\ ns[n].extr
                 /\ ns[n].strat = AllOrNothing
                 /\ \A k \in 1..Len(ns[n].ops) : ns[n].ops[k].impl \in impls

RECURSIVE ExpectedExecs(_, _)
ExpectedExecs(lv, i) ==
    IF i > Len(lv) THEN << >>
    ELSE LET n == IF lv[i].strat = FirstSuccess /\ Len(lv[i].lazy) > 0
                  THEN 1 ELSE Len(lv[i].lazy)
         IN  [k \in 1..n |-> [node |-> lv[i].name, op |-> lv[i].lazy[k]]]
             \o ExpectedExecs(lv, i + 1)

ExecSeq(log) ==
    LET ex == SelectSeq(log, LAMBDA e : e.ev = "exec")
    IN  [k \in 1..Len(ex) |-> [node |-> ex[k].node, op |-> ex[k].op]]

RECURSIVE ConcatResults(_, _, _)
ConcatResults(lv, i, k) ==
    IF i > Len(lv) THEN ""
    ELSE IF k > Len(lv[i].ops) THEN ConcatResults(lv, i + 1, 1)
    ELSE OpExecute(lv[i].ops[k].impl, << >>).val.s \o ConcatResults(lv, i, k + 1)

(* C15: the operations a call executes are, in order, a prefix of the      *)
(* depth-first, reference-ordered list of the tree's operations (the whole *)
(* list when the call succeeds); with the string-concatenation combiner    *)
(* under AllOrNothing the result is the concatenation of the operations'   *)
(* results in that order.  The children of a built tree stand in the      *)
(* declaration order of the record's exported fields.                      *)
DeclaredNames(t) ==
    LET fs == SelectSeq(Layout[t], LAMBDA f : f.exported)
    IN  [k \in 1..Len(fs) |-> fs[k].name]

C15_DepthFirstDeclaredOrder ==
    /\ \A i \in 1..Len(heap) :
          heap[i].root.name \in StructTypes =>
             [k \in 1..Len(heap[i].root.kids) |-> heap[i].root.kids[k].name]
                = DeclaredNames(heap[i].root.name)
    /\ (IsWalk(last) /\ last.rcp # 0) =>
        LET lv == Leaves(heap[last.rcp].root)
            want == ExpectedExecs(lv, 1)
            got == ExecSeq(last.log)
        IN  /\ Len(got) <= Len(want)
            /\ got = SubSeq(want, 1, Len(got))
            /\ last.err = "nil" => got = want
            /\ (last.op = "combine" /\ last.used = "concat"
                /\ Foldable(heap[last.rcp].root, {"sx", "sy"})) =>
                  /\ last.err = "nil"
                  /\ last.val = StrV(ConcatResults(lv, 1, 1))

C15_Witness ==
    /\ last.op = "combine" /\ last.rcp # 0 /\ last.used = "concat"
    /\ Foldable(heap[last.rcp].root, {"sx", "sy"})
    /\ hasChild(heap[last.rcp].root.kids[1])
    /\ last.val = StrV("xxy")

(* The shape of a tree: field names, offsets and operation references,     *)
(* node by node.                                                           *)
RECURSIVE Shape(_)
Shape(eTree) ==
    [name |-> eTree.name, off |-> eTree.off, lazy |-> eTree.lazy,
     kids |-> [k \in 1..Len(eTree.kids) |-> Shape(eTree.kids[k])]]

BuiltShape(b) == IF b.err = "nil" THEN Shape(b.h[b.rcp].root) ELSE Shape(NilTree)

C17_NonRecordRejected ==
    (last.op \in {"build", "buildCached", "getOrBuild"} /\ Kind(last.t) # "struct") =>
        last.err = "ErrNotStructKind"

(* C18: GetOrBuild for a type the cache holds a Recipe for returns that    *)
(* very Recipe and builds nothing, whether the Recipe was put there by an  *)
(* earlier GetOrBuild, by Build or by Set; a successful GetOrBuild leaves  *)
(* the returned Recipe in the cache.                                       *)
C18_GetOrBuildReturnsCached ==
    [][last'.op = "getOrBuild" =>
         /\ (Kind(last'.t) = "struct" /\ cache[last'.t] # 0) =>
               /\ last'.err = "nil"
               /\ last'.rcp = cache[last'.t]
               /\ heap' = heap
               /\ cache' = cache
         /\ last'.err = "nil" =>
               /\ last'.rcp # 0
               /\ cache'[last'.t] = last'.rcp]_vars

C18_Witness ==
    /\ last.op = "getOrBuild" /\ last.err = "nil"
    /\ cache[last.t] = last.rcp
    /\ heap[last.rcp].root = HandTree

(* C19: RegisterOperation(n, op) makes resolve(n) return op, whatever its  *)
(* arity and whatever was registered under n before, and changes the       *)
(* result for no other name; before any registration every name is not     *)
(* found.                                                                  *)
C19_LastRegistrationWins ==
    /\ \A n \in OpNames : resolveOperation(registry, n).err = "ErrOpNotFound"
    /\ [][/\ last'.op = "register" =>
               resolveOperation(registry', last'.t) =
                  [err |-> "nil",
                   rOp |-> [name |-> last'.t, impl |-> last'.vals[1].impl,
                            arity |-> last'.vals[1].arity]]
          /\ \A n \in OpNames :
               (last'.op # "register" \/ last'.t # n) =>
                  resolveOperation(registry', n) = resolveOperation(registry, n)]_vars

C19_Witness ==
    /\ last.op = "register"
    /\ last.vals[1].arity = OpVariadic
    /\ resolveOperation(registry, last.t).rOp.arity = OpVariadic
    /\ \E n \in OpNames : resolveOperation(registry, n).err = "ErrOpNotFound"

(* C20: in every Recipe, before and after resolution, a node with children *)
(* has neither operation references nor resolved operations.               *)
C20_InternalOrLeaf ==
    \A i \in 1..Len(heap) :
        LET ns == Nodes(heap[i].root)
        IN  \A n \in 1..Len(ns) :
               hasChild(ns[n]) => (ns[n].lazy = << >> /\ ns[n].ops = << >>)

C20_Witness ==
    /\ Len(heap) > 0
    /\ heap[1].root.name = "T1"
    /\ heap[1].resolved
    /\ hasChild(heap[1].root.kids[2])
    /\ heap[1].root.kids[1].ops # << >>

(* Whether every operation reference of the tree has a bound operation.    *)
FullyBound(eTree) ==
    LET ns == Nodes(eTree)
    IN  \A n \in 1..Len(ns) : \A k \in 1..Len(ns[n].lazy) :
           \E j \in 1..Len(ns[n].ops) : ns[n].ops[j].name = ns[n].lazy[k]

(* C21: the resolved flag of a Recipe object is monotonic: a call turns it *)
(* to true only when every operation reference of the tree is bound, no    *)
(* call turns it back to false, and Build and Set leave the flags of the   *)
(* existing Recipes alone (a newly built Recipe starts unresolved).        *)
C21_ResolvedMonotonic ==
    [][/\ Len(heap') = Len(heap)
       /\ \A i \in 1..Len(heap) :
             /\ heap[i].resolved => heap'[i].resolved
             /\ (~heap[i].resolved /\ heap'[i].resolved) => FullyBound(heap'[i].root)
       /\ \A wt \in BuildTypes, doCache \in BOOLEAN :
             \E b \in { Build(heap, cache, wt, doCache, grammar.walkType) } :
                /\ SubSeq(b.h, 1, Len(heap)) = heap
                /\ \A i \in (Len(heap) + 1)..Len(b.h) : ~b.h[i].resolved
       /\ \A wt \in BuildTypes, id \in 1..Len(heap) :
             Set(heap, cache, wt, id).h = heap]_vars

C21_Witness ==
    /\ IsWalk(last) /\ ~last.pres /\ last.rcp # 0
    /\ heap[last.rcp].resolved
    /\ FullyBound(heap[last.rcp].root)
    /\ \E n \in 1..Len(Nodes(heap[last.rcp].root)) :
          Len(Nodes(heap[last.rcp].root)[n].ops) > 1

(* C22: when two concurrent first callers of an unseen record type have    *)
(* both built a Recipe and both calls have completed (every referenced     *)
(* operation being registered), the cache holds one of the two Recipes     *)
(* and that Recipe is marked resolved.                                     *)
C22_ConcurrentFirstCallers ==
    (/\ \A th \in Threads : pc[th] = "done"
     /\ Len(heap) = Cardinality(Threads)
     /\ registry = RegAll) =>
        /\ cache[ConcType] \in 1..Len(heap)
        /\ heap[cache[ConcType]].resolved

(* Whether some caller is still building the Recipe object i.               *)
UnderConstruction(i) ==
    \E th \in Threads : pc[th] \in {"fields", "strategy"} /\ loc[th].rcp = i

(* Whether rcp is a finished Recipe for type t: the one the caller         *)
(* assembled, or the complete tree of t with the grammar's strategy.       *)
CompleteFor(rcp, t) ==
    \/ rcp = HandRecipe(OpUnary, grammar.walkType)
    \/ \E b \in { buildRecipe(t, grammar.walkType) } : b.err = "nil" /\ rcp = b.rcp

(* C23: under any interleaving of GetOrBuild, Build and Set, every Recipe  *)
(* the cache holds, and every Recipe a GetOrBuild has returned, is         *)
(* completely built: no caller is still building it, its tree has every    *)
(* field of the type and its strategy is set.                              *)
C23_NoPartialPlanVisible ==
    /\ \A t \in StructTypes :
          cache[t] # 0 =>
             /\ ~UnderConstruction(cache[t])
             /\ CompleteFor(heap[cache[t]], t)
    /\ \A th \in Threads :
          (pc[th] = "done" /\ loc[th].t = "getOrBuild" /\ loc[th].err = "nil") =>
             CompleteFor(heap[loc[th].rcp], loc[th].hdr[1])

C23_Witness ==
    \E th \in Threads, ot \in Threads :
        /\ pc[th] = "fields"
        /\ loc[th].hdr = << "T1" >>
        /\ hasChild(heap[loc[th].rcp].root)
        /\ pc[ot] = "done" /\ loc[ot].t = "getOrBuild" /\ loc[ot].hdr = << "T1" >>
        /\ loc[ot].err = "nil"
        /\ cache["T1"] = loc[ot].rcp
        /\ loc[ot].rcp # loc[th].rcp

(* The positions of the walk's trace at which an operation returned an     *)
(* error.                                                                  *)
FailedExecs(log) ==
    { k \in 1..Len(log) :
        log[k].ev = "exec" /\ OpExecute(log[k].impl, log[k].srcs).err # "nil" }

C25_ApplySourcesAreCallerValues ==
    last.op = "apply" =>
        \A k \in 1..Len(last.log) :
           /\ last.log[k].ev # "read"
           /\ last.log[k].ev = "exec" => last.log[k].srcs = last.vals

C25_Witness ==
    /\ last.op = "apply" /\ last.err = "nil"
    /\ Len(last.walked) > 1
    /\ Len(last.vals) > 1
    /\ Len(SelectSeq(last.log, LAMBDA e : e.ev = "exec")) > 2
    /\ Len(SelectSeq(last.log, LAMBDA e : e.ev = "apply")) > 2

(* C26: in a successful apply call with N instances, a FirstSuccess leaf   *)
(* with k operations executes only its first operation and hands its       *)
(* result to the Applier N times; an AllOrNothing leaf executes all k and  *)
(* hands each result to the Applier N times, in declared order; afterwards *)
(* the leaf's field holds, in every instance, the result of the first      *)
(* (FirstSuccess) or the last (AllOrNothing) operation.                    *)
C26_ApplyPerStrategy ==
    (last.op = "apply" /\ last.err = "nil" /\ last.rcp # 0
     /\ hasChild(heap[last.rcp].root)) =>
        LET la == LeafAddrs(heap[last.rcp].root.kids, 1, 0)
            lv == Leaves(heap[last.rcp].root)
            N == Len(last.walked)
        IN  \A n \in 1..Len(lv) :
              LET k == Len(lv[n].ops)
                  ap == AppliesOf(last.log, lv[n].name)
                  ex == ExecsOf(last.log, lv[n].name)
                  run == IF lv[n].strat = FirstSuccess THEN 1 ELSE k
              IN  k > 0 =>
                    /\ Len(ex) = run
                    /\ \A j \in 1..Len(ex) : ex[j].op = lv[n].ops[j].name
                    /\ Len(ap) = run * N
                    /\ \A m \in 1..Len(ap) :
                          ap[m].val = OpExecute(lv[n].ops[((m - 1) \div N) + 1].impl,
                                                last.vals).val
                    /\ \A i \in 1..N :
                          MemAfter(last.log, Len(last.log),
                                   last.walked[i].base + la[n].owner + la[n].off)
                             = OpExecute(lv[n].ops[run].impl, last.vals).val

(* Whether the trace entry e is the execution of an operation bound in     *)
(* the tree.                                                               *)
BoundIn(eTree, e) ==
    LET ns == Nodes(eTree)
    IN  \E n \in 1..Len(ns) :
           /\ ns[n].name = e.node
           /\ \E k \in 1..Len(ns[n].ops) :
                 ns[n].ops[k].name = e.op /\ ns[n].ops[k].impl = e.impl

(* C27: registering an operation changes no Recipe, and a combine/apply    *)
(* call on a Recipe that was already resolved leaves its bound operations  *)
(* as they were and executes only those, whatever the registry holds for   *)
(* their names by then.                                                    *)
C27_BoundOnceNeverLookedUpAgain ==
    [][/\ last'.op = "register" => heap' = heap
       /\ (IsWalk(last') /\ last'.pres /\ last'.rcp # 0) =>
             /\ heap'[last'.rcp].root = heap[last'.rcp].root
             /\ \A k \in 1..Len(last'.log) :
                   last'.log[k].ev = "exec" =>
                      BoundIn(heap[last'.rcp].root, last'.log[k])]_vars

C27_Witness ==
    /\ IsWalk(last) /\ last.pres /\ last.rcp # 0 /\ last.err = "nil"
    /\ \E k \in 1..Len(last.log) :
          /\ last.log[k].ev = "exec"
          /\ registry[last.log[k].op].impl # last.log[k].impl
          /\ BoundIn(heap[last.rcp].root, last.log[k])

(* C28: after AddSharedModifier(k, format, use, kind) the configuration's  *)
(* shared-modifier map holds an entry for k with that format, use and      *)
(* kind.                                                                   *)
C28_SharedModifierStored ==
    last.op = "addSharedModifier" =>
        grammar.sharedMods.m[last.t] =
            ModifierSpec(last.t, last.vals[1], last.vals[2], last.vals[3])

(* The state the machine m yields, a nil machine acting as the identity.   *)
RunPrevious(m, val, err, current) ==
    IF m = NilFSM THEN current ELSE RunFSM(m, val, err, current)

(* C29: after WrapExecFSM(wrapper, callBefore) the configured machine      *)
(* maps every state as the wrapper followed by the previously configured   *)
(* machine (callBefore) or as the previous machine followed by the wrapper *)
(* (not callBefore); a previous machine that was never set acts as the     *)
(* identity.  This holds for every wrap of any sequence of wraps.          *)
C29_WrapComposesInOrder ==
    [][last'.op = "wrapExecFSM" =>
         \A err \in BOOLEAN, current \in ExecStates :
            RunFSM(grammar'.walkFSM, NilV, err, current) =
               IF last'.vals[2]
               THEN RunPrevious(grammar.walkFSM, NilV, err,
                                RunFSM(last'.vals[1], NilV, err, current))
               ELSE RunFSM(last'.vals[1], NilV, err,
                           RunPrevious(grammar.walkFSM, NilV, err, current))]_vars

C29_Witness ==
    /\ last.op = "wrapExecFSM"
    /\ last.vals[2]
    /\ grammar.walkFSM.k = "wrap"
    /\ grammar.walkFSM.previous.k = "wrap"
    /\ ~grammar.walkFSM.previous.callBefore
    /\ grammar.walkFSM.previous.previous = IdFSM
    /\ grammar.walkFSM.wrapper # grammar.walkFSM.previous.wrapper
    /\ RunFSM(grammar.walkFSM, NilV, FALSE, 1) = 0

(* C30: a combine or apply walk over a Recipe built by the Builder never   *)
(* calls an accessor the Builder did not compile for the node: the walk    *)
(* does not panic on a nil structAddressor or fieldExtractor.              *)
C30_NoAbsentAccessorCalled ==
    (/\ IsWalk(last) /\ last.rcp # 0
     /\ Shape(heap[last.rcp].root) = Shape(buildTree("T1").tree)) =>
        last.err # "panic"

(* Whether every operation the tree references is registered, all with    *)
(* one of the two defined arities and all with the same one.               *)
RegisteredWithOneArity(eTree) ==
    LET ns == Nodes(eTree)
    IN  \E ar \in {OpUnary, OpVariadic} :
           \A n \in 1..Len(ns) : \A i \in 1..Len(ns[n].lazy) :
              /\ registry[ns[n].lazy[i]] # NoOp
              /\ registry[ns[n].lazy[i]].arity = ar

(* C31: a combine/apply call on a Recipe built by the Builder, all of      *)
(* whose operation references are registered with one and the same arity,  *)
(* resolves the Recipe; the Recipe's arity is Unary or Variadic.           *)
C31_BuiltPlanResolves ==
    (/\ IsWalk(last) /\ CachedFor(last) # 0
     /\ Shape(heap[CachedFor(last)].root) =
           Shape(buildTree(last.walked[1].elem).tree)
     /\ RegisteredWithOneArity(heap[CachedFor(last)].root)) =>
        /\ heap[CachedFor(last)].resolved
        /\ heap[CachedFor(last)].arity \in {OpUnary, OpVariadic}
        /\ last.err \notin {"ErrArityMismatch", "ErrOpNotFound"}

(* C32: a combine or apply call on a Recipe of arity Unary executes every  *)
(* operation with exactly one source.                                      *)
C32_UnaryGetsOneSource ==
    (IsWalk(last) /\ last.rcp # 0 /\ heap[last.rcp].arity = OpUnary) =>
        \A k \in 1..Len(last.log) :
           last.log[k].ev = "exec" => Len(last.log[k].srcs) = 1

(* C33: once the cache has held a resolved Recipe for the walked record    *)
(* type, no step of any concurrent call replaces it by an unresolved one.  *)
C33_ResolvedEntryStays ==
    [][(cache[ConcType] # 0 /\ heap[cache[ConcType]].resolved) =>
          (cache'[ConcType] # 0 /\ heap'[cache'[ConcType]].resolved)]_vars

(* The value walkCombiner folds out of the Recipe the call l used.         *)
TreeFold(l) == walkCombiner(l.used, heap[l.rcp].root, Pointers(l.walked))

(* C34: for the logical-AND and the string-concatenation combiner, a       *)
(* successful combine call returns the value of the tree fold itself,      *)
(* folding that value once more against the zero value changes nothing,    *)
(* and a tree without children and operations yields the zero value.       *)
C34_FinishingFoldIdempotent ==
    (/\ last.op = "combine" /\ last.err = "nil"
     /\ last.used \in {"and", "concat"}) =>
        /\ last.val = TreeFold(last).val
        /\ Combine(last.used, Zero(last.used).val, last.val).val = last.val
        /\ Len(Nodes(heap[last.rcp].root)) = 1 =>
              last.val = Zero(last.used).val

(* A concatenating call over mapped fields returned a non-empty string,    *)
(* after a call had walked the record type without mapped fields.          *)
C34_Witness ==
    /\ last.op = "combine" /\ last.err = "nil"
    /\ last.used = "concat" /\ last.val.k = "str" /\ last.val.s # ""
    /\ cache["T0"] # 0 /\ heap[cache["T0"]].resolved
    /\ Len(Nodes(heap[cache["T0"]].root)) = 1

(* The flat structure has been selected with a format that passes the     *)
(* flat format validation.                                                 *)
FlatSelected(cfg) == cfg.flat /\ validate(cfg) = "nil"

(* C35: once a flat structure and a valid format are selected, Build on    *)
(* the value the chain of setters returned runs the flat format validation *)
(* and does not fail with the unstructured-grammar error.                  *)
C35_FlatStructureKept ==
    (last.op = "build" /\ FlatSelected(grammar)) =>
        /\ last.err = validate(grammar)
        /\ last.err # ErrUnstructured

(* C36: every template other than the invalid zero value yields a non-nil  *)
(* flat configuration whose format and separator pass the validation.      *)
C36_TemplatesValid ==
    (last.op = "newFlatConfigFromTemplate"
        /\ last.vals[1] \in FlatTemplates \ {FTemplateInvalid}) =>
        /\ grammar.dyn = "flatGrammarConfig"
        /\ validate(grammar) = "nil"

(* The cache entry of type u is the same Recipe before and after the step. *)
EntryKept(u) ==
    /\ (cache[u] = 0) = (cache'[u] = 0)
    /\ cache[u] # 0 => heap'[cache'[u]] = heap[cache[u]]

(* C37: Set with a key that is not a struct type returns ErrNotStructKind   *)
(* and leaves every cache entry as it was; with a struct type it returns    *)
(* nil, makes the given Recipe the entry of that type and leaves the        *)
(* entries of all other types as they were.                                 *)
C37_SetFrame ==
    [][last'.op = "set" =>
          IF Kind(last'.t) # "struct"
          THEN /\ last'.err = "ErrNotStructKind"
               /\ \A u \in StructTypes : EntryKept(u)
          ELSE /\ last'.err = "nil"
               /\ cache'[last'.t] = last'.rcp
               /\ last'.rcp \in 1..Len(heap')
               /\ \A u \in StructTypes \ {last'.t} : EntryKept(u)]_vars

(* Set replaced the entry of T1 by another Recipe while the cache held an   *)
(* entry for another record type.                                           *)
C37_Witness ==
    /\ last.op = "set" /\ last.err = "nil" /\ last.t = "T1"
    /\ cache["T1"] = last.rcp
    /\ heap[cache["T1"]].root = HandTree
    /\ cache["TN"] # 0 /\ heap[cache["TN"]].root = buildTree("TN").tree

(* The build of the type t fails, at the top level or in a nested struct.  *)
BuildFails(t) == buildRecipe(t, grammar.walkType).err # "nil"

=============================================================================
